---- MODULE Spec2Model ----
(***************************************************************************)
(* Resource-governed feature extraction of the SimWrapper SQLite map       *)
(* plugins (sqlite-map, aequilibrae, polaris): the reference-counted       *)
(* database cache, the admission queue, the shared engine handle and the   *)
(* load cycle of the reader components.                                    *)
(*                                                                         *)
(* JavaScript runs the code single-threaded: an action of this module is   *)
(* one run-to-completion segment of a function, from one `await` to the    *)
(* next.  Reactions of an already settled promise are microtasks: they run *)
(* before any reaction queued later and before any macrotask.              *)
(***************************************************************************)
EXTENDS Integers, Sequences, FiniteSets, TLC

\* ------------------------------------------------------------------ bounds
NumCallers == 3          \* callers of openDb/releaseDb in Spec
MaxOpens == 3            \* openDb calls issued in one behaviour of Spec
MaxTickets == 8          \* acquireLoadingSlot calls in one behaviour of SpecQueue
NumReaders == 2          \* reader components mounted in one behaviour of SpecLoad
MaxFilterLen == 5        \* characters of a layer's sqlFilter in SpecFilter
MaxLayers == 2           \* layers handed to one buildGeoFeatures call in SpecBuild
NumUsers == 3            \* callers of initSql/releaseSql in SpecEngine
MaxInits == 4            \* initSql calls issued in one behaviour of SpecEngine
MaxClears == 2           \* clearAllDbCaches calls in one behaviour of SpecTeardown
MaxStrays == 1           \* releaseDb calls without an openDb in one behaviour of SpecTeardown
MaxTeardownOpens == 2    \* openDb calls issued in one behaviour of SpecTeardown
MaxRows == 2             \* rows of the primary and of the secondary table in SpecJoin
MaxFeatures == 3         \* features handed to buildStyleArrays in SpecStyle and SpecMapping
MaxPrecision == 2        \* decimal places asked of simplifyCoordinates in SpecSimplify
MaxWaiters == 5          \* acquireLoadingSlot calls in one behaviour of SpecQueueFair
MaxLoads == 3            \* loadDbWithCache and lazy loader calls in one behaviour of SpecBlob

Callers == 1..NumCallers
Readers == 1..NumReaders
Paths == {"a.db", "b.db"}
\* The plugin build whose module-level state is modelled: the sqlite-map
\* db.ts/loader.ts modules, or the polaris usePolaris.ts module.
Plugins == {"sqlite-map", "polaris"}

VARIABLES
  plugin,          \* which plugin's modules are loaded (never changes)
  dbCache,         \* db.ts: const dbCache = new Map<string, CachedDb>()
  dbLoadPromises,  \* db.ts: const dbLoadPromises = new Map<string, Promise>()
  loadPromise,     \* every loadPromise created by openDb, by creation order
  conn,            \* every connection spl.db() has produced
  caller,          \* the callers of Spec: position, path, promise, handle
  openCalls,       \* openDb calls issued so far (bounded by MaxOpens)
  opened,          \* per path: openDb calls that have returned a connection
  released,        \* per path: releaseDb calls made
  loadingQueue,    \* loader.ts: the promise at the tail of the queue (0: the
                   \* initial Promise.resolve(), else the ticket that owns it)
  queueLength,     \* loader.ts: let queueLength
  totalMapsLoading,\* loader.ts: let totalMapsLoading (the gauge)
  ticket,          \* one record per acquireLoadingSlot call, in call order
  slot,            \* SpecQueue: what the caller of each ticket has done
  sharedSpl,       \* let sharedSpl (FALSE: null)
  splInitPromise,  \* let splInitPromise: "none" (null), "pending", "rejected"
  splRefCount,     \* let splRefCount
  splCalls,        \* how many times initSql has invoked the factory SPL()
  rd,              \* SpecLoad: the reader components
  sqlFilter,       \* SpecFilter: layerConfig.sqlFilter, a sequence of characters
  fetchPc,         \* SpecFilter: "start", then "done" or "threw"
  execLog,         \* SpecFilter: the WHERE filters of the queries given to db.exec
  build,           \* SpecBuild: one call of buildGeoFeatures
  engineUser,      \* SpecEngine: the callers of initSql/releaseSql
  teardown,        \* SpecTeardown: clearAllDbCaches calls and unmatched releases made
  extraction,      \* SpecBudget: one extractGeometries call and the options it used
  joinRun,         \* SpecJoin: one join of a layer's rows with a secondary table
  call,            \* the function under check in the specifications of one
                   \* function: its arguments, its position and its result
  joinDataCache    \* db.ts: const joinDataCache, per cache key where its rows came from

dbVars == <<dbCache, dbLoadPromises, loadPromise, conn>>
callerVars == <<caller, openCalls, opened, released>>
queueVars == <<loadingQueue, queueLength, totalMapsLoading, ticket>>
engineVars == <<sharedSpl, splInitPromise, splRefCount, splCalls>>
filterVars == <<sqlFilter, fetchPc, execLog>>
buildVars == <<build, joinDataCache>>
auxVars == <<buildVars, engineUser, teardown, extraction, joinRun, call>>
loadVars == <<engineVars, rd, filterVars, auxVars>>
vars == <<plugin, dbVars, callerVars, queueVars, slot, loadVars>>

Max(a, b) == IF a >= b THEN a ELSE b

\* ------------------------------------------------------- admission queue
QueueState == [loadingQueue |-> loadingQueue, queueLength |-> queueLength,
               totalMapsLoading |-> totalMapsLoading, ticket |-> ticket]

SetQueue(q) ==
  /\ loadingQueue' = q.loadingQueue
  /\ queueLength' = q.queueLength
  /\ totalMapsLoading' = q.totalMapsLoading
  /\ ticket' = q.ticket

\* acquireLoadingSlot whose turn does not wait for the queue tail.
acquireLoadingSlot_noChain(q) ==
  [q EXCEPT !.queueLength = @ + 1,
            !.totalMapsLoading = @ + 1,
            !.ticket = Append(@, [prev |-> 0, resolved |-> FALSE]),
            !.loadingQueue = Len(q.ticket) + 1]

\* acquireLoadingSlot(): myTurn = loadingQueue.then(); loadingQueue becomes
\* the new promise, which this ticket's releaseSlot resolves.
acquireLoadingSlot(q) ==
  [q EXCEPT !.queueLength = @ + 1,
            !.totalMapsLoading = @ + 1,
            !.ticket = Append(@, [prev |-> q.loadingQueue, resolved |-> FALSE]),
            !.loadingQueue = Len(q.ticket) + 1]

\* myTurn of ticket t is fulfilled: the promise it chained on is resolved.
myTurn(q, t) ==
  IF q.ticket[t].prev = 0 THEN TRUE ELSE q.ticket[q.ticket[t].prev].resolved

\* A release callback that does not resolve the queue promise.
releaseSlot_noResolve(q, t) ==
  [q EXCEPT !.queueLength = @ - 1]

\* releaseSlot = () => { queueLength--; resolve() }
releaseSlot(q, t) ==
  [q EXCEPT !.queueLength = @ - 1, !.ticket[t].resolved = TRUE]

\* mapLoadingComplete that leaves the gauge as it is.
mapLoadingComplete_keep(q) == q

\* mapLoadingComplete()
mapLoadingComplete(q) ==
  [q EXCEPT !.totalMapsLoading = Max(0, @ - 1)]

\* getTotalMapsLoading()
getTotalMapsLoading(q) == q.totalMapsLoading

\* getMemoryLimits(totalMaps): the row limit and the coordinate precision
\* that go with the number of maps loading.
getMemoryLimits(totalMaps) ==
  IF totalMaps >= 8 THEN [autoLimit |-> 25000, autoPrecision |-> 4]
  ELSE IF totalMaps >= 5 THEN [autoLimit |-> 40000, autoPrecision |-> 4]
  ELSE IF totalMaps >= 3 THEN [autoLimit |-> 60000, autoPrecision |-> 5]
  ELSE [autoLimit |-> 100000, autoPrecision |-> 5]

InitQueue ==
  /\ loadingQueue = 0
  /\ queueLength = 0
  /\ totalMapsLoading = 0
  /\ ticket = <<>>

\* --------------------------------------------------------- shared engine
EngineState == [sharedSpl |-> sharedSpl, splInitPromise |-> splInitPromise,
                splRefCount |-> splRefCount, splCalls |-> splCalls]

SetEngine(e) ==
  /\ sharedSpl' = e.sharedSpl
  /\ splInitPromise' = e.splInitPromise
  /\ splRefCount' = e.splRefCount
  /\ splCalls' = e.splCalls

\* initSql that does not look for an initialisation in flight.
initSql_noPending(e) ==
  IF e.sharedSpl
  THEN [e EXCEPT !.splRefCount = @ + 1]
  ELSE [e EXCEPT !.splRefCount = @ + 1, !.splInitPromise = "pending",
                 !.splCalls = @ + 1]

\* initSql(): splRefCount++; reuse the engine or the pending initialisation,
\* else start SPL().
initSql(e) ==
  IF e.sharedSpl \/ e.splInitPromise # "none"
  THEN [e EXCEPT !.splRefCount = @ + 1]
  ELSE [e EXCEPT !.splRefCount = @ + 1, !.splInitPromise = "pending",
                 !.splCalls = @ + 1]

\* releaseSql that drops the engine when the last reference is returned.
releaseSql_teardown(e) ==
  IF e.splRefCount - 1 <= 0
  THEN [e EXCEPT !.splRefCount = 0, !.sharedSpl = FALSE]
  ELSE [e EXCEPT !.splRefCount = @ - 1]

\* releaseSql()
releaseSql(e) ==
  [e EXCEPT !.splRefCount = Max(0, @ - 1)]

InitEngine ==
  /\ sharedSpl = FALSE
  /\ splInitPromise = "none"
  /\ splRefCount = 0
  /\ splCalls = 0

\* ------------------------------------------------------- database cache
\* Map.get(path) === undefined is db = 0.
NoEntry == [db |-> 0, refCount |-> 0]

DbState == [dbCache |-> dbCache, dbLoadPromises |-> dbLoadPromises,
            loadPromise |-> loadPromise, conn |-> conn]

SetDb(s) ==
  /\ dbCache' = s.dbCache
  /\ dbLoadPromises' = s.dbLoadPromises
  /\ loadPromise' = s.loadPromise
  /\ conn' = s.conn

\* openDb, cache hit: cached.refCount++; return cached.db
openDbCached(s, p) ==
  [s EXCEPT !.dbCache[p].refCount = @ + 1]

\* openDb, "Load and cache": the async IIFE calls spl.db (the parse), the new
\* promise is stored in dbLoadPromises.
openDbLoad(s, p) ==
  [s EXCEPT !.loadPromise = Append(@, [path |-> p, state |-> "pending", db |-> 0]),
            !.dbLoadPromises[p] = Len(s.loadPromise) + 1]

\* openDb without the dbLoadPromises check: every miss starts a parse.
openDbBranch_noCoalesce(s, p) ==
  IF s.dbCache[p].db # 0 THEN "cached" ELSE "load"

\* Which branch openDb takes for a path.
openDbBranch(s, p) ==
  IF s.dbCache[p].db # 0 THEN "cached"
  ELSE IF s.dbLoadPromises[p] # 0 THEN "join"
  ELSE "load"

\* The IIFE after `await spl.db(arrayBuffer)` resolved: dbCache.set,
\* dbLoadPromises.delete, return db.
loadResolved(s, k) ==
  LET p == s.loadPromise[k].path
      id == Len(s.conn) + 1
  IN [s EXCEPT !.conn = Append(@, [path |-> p, open |-> TRUE, closes |-> 0,
                                   closeThrew |-> FALSE]),
               !.dbCache[p] = [db |-> id, refCount |-> 1],
               !.dbLoadPromises[p] = 0,
               !.loadPromise[k] = [@ EXCEPT !.state = "fulfilled", !.db = id]]

\* The IIFE when spl.db rejects.  db.ts has no try/finally: the rejected
\* promise stays in dbLoadPromises.  usePolaris.ts deletes it in a finally.
loadRejected(s, k, plg) ==
  LET p == s.loadPromise[k].path
  IN IF plg = "polaris"
     THEN [s EXCEPT !.loadPromise[k].state = "rejected", !.dbLoadPromises[p] = 0]
     ELSE [s EXCEPT !.loadPromise[k].state = "rejected"]

\* openDb after `await loadingPromise`: if (nowCached) nowCached.refCount++
openDbJoined(s, p) ==
  IF s.dbCache[p].db # 0 THEN [s EXCEPT !.dbCache[p].refCount = @ + 1] ELSE s

\* cached.db.close()
closeConn(cn, id) ==
  [cn EXCEPT ![id] = [@ EXCEPT !.open = FALSE, !.closes = @ + 1]]

\* releaseDb with the teardown test written `refCount < 0`.
releaseDb_belowZero(s, p) ==
  LET cached == s.dbCache[p]
  IN IF cached.db = 0 THEN s
     ELSE IF cached.refCount - 1 < 0
     THEN [s EXCEPT !.conn = closeConn(s.conn, cached.db), !.dbCache[p] = NoEntry]
     ELSE [s EXCEPT !.dbCache[p].refCount = @ - 1]

\* releaseDb(path)
releaseDb(s, p) ==
  LET cached == s.dbCache[p]
  IN IF cached.db = 0 THEN s
     ELSE IF cached.refCount - 1 <= 0
     THEN [s EXCEPT !.conn = closeConn(s.conn, cached.db), !.dbCache[p] = NoEntry]
     ELSE [s EXCEPT !.dbCache[p].refCount = @ - 1]

\* ----------------------------------------------------- callers of the cache
\* A caller follows the scoped discipline of the cache contract: it calls
\* openDb(path), and once it holds the connection it calls releaseDb(path).
Idle == [pc |-> "idle", path |-> "", promise |-> 0, db |-> 0]

\* A reaction of a settled load promise is still queued.
JoinPending ==
  \E c \in Callers : /\ caller[c].pc = "awaitJoin"
                     /\ loadPromise[caller[c].promise].state # "pending"

OpenDb(c, p) ==
  /\ caller[c].pc = "idle"
  /\ openCalls < MaxOpens
  /\ openCalls' = openCalls + 1
  /\ LET br == openDbBranch(DbState, p)
     IN CASE br = "cached" ->
               /\ SetDb(openDbCached(DbState, p))
               /\ caller' = [caller EXCEPT ![c] =
                    [pc |-> "holding", path |-> p, promise |-> 0, db |-> dbCache[p].db]]
               /\ opened' = [opened EXCEPT ![p] = @ + 1]
          [] br = "join" ->
               /\ UNCHANGED dbVars
               /\ caller' = [caller EXCEPT ![c] =
                    [pc |-> "awaitJoin", path |-> p, promise |-> dbLoadPromises[p], db |-> 0]]
               /\ UNCHANGED opened
          [] br = "load" ->
               /\ SetDb(openDbLoad(DbState, p))
               /\ caller' = [caller EXCEPT ![c] =
                    [pc |-> "awaitLoad", path |-> p, promise |-> Len(loadPromise) + 1, db |-> 0]]
               /\ UNCHANGED opened
  /\ UNCHANGED <<plugin, released, queueVars, slot, loadVars>>

ParseResolves(k) ==
  /\ k \in 1..Len(loadPromise)
  /\ loadPromise[k].state = "pending"
  /\ SetDb(loadResolved(DbState, k))
  /\ UNCHANGED <<plugin, callerVars, queueVars, slot, loadVars>>

ParseRejects(k) ==
  /\ k \in 1..Len(loadPromise)
  /\ loadPromise[k].state = "pending"
  /\ SetDb(loadRejected(DbState, k, plugin))
  /\ UNCHANGED <<plugin, callerVars, queueVars, slot, loadVars>>

\* `const db = await loadingPromise` continues in a caller that joined.
JoinResume(c) ==
  /\ caller[c].pc = "awaitJoin"
  /\ LET k == caller[c].promise
         p == caller[c].path
     IN \/ /\ loadPromise[k].state = "fulfilled"
           /\ SetDb(openDbJoined(DbState, p))
           /\ caller' = [caller EXCEPT ![c] = [@ EXCEPT !.pc = "holding", !.db = loadPromise[k].db]]
           /\ opened' = [opened EXCEPT ![p] = @ + 1]
        \/ /\ loadPromise[k].state = "rejected"
           /\ UNCHANGED dbVars
           /\ caller' = [caller EXCEPT ![c] = Idle]
           /\ UNCHANGED opened
  /\ UNCHANGED <<plugin, openCalls, released, queueVars, slot, loadVars>>

\* `return loadPromise` settles the openDb call of the caller that started
\* the load; the joiners' reactions were queued before it.
LoadResume(c) ==
  /\ caller[c].pc = "awaitLoad"
  /\ ~JoinPending
  /\ LET k == caller[c].promise
         p == caller[c].path
     IN \/ /\ loadPromise[k].state = "fulfilled"
           /\ caller' = [caller EXCEPT ![c] = [@ EXCEPT !.pc = "holding", !.db = loadPromise[k].db]]
           /\ opened' = [opened EXCEPT ![p] = @ + 1]
        \/ /\ loadPromise[k].state = "rejected"
           /\ caller' = [caller EXCEPT ![c] = Idle]
           /\ UNCHANGED opened
  /\ UNCHANGED <<plugin, dbVars, openCalls, released, queueVars, slot, loadVars>>

ReleaseDb(c) ==
  /\ caller[c].pc = "holding"
  /\ ~JoinPending
  /\ SetDb(releaseDb(DbState, caller[c].path))
  /\ released' = [released EXCEPT ![caller[c].path] = @ + 1]
  /\ caller' = [caller EXCEPT ![c] = Idle]
  /\ UNCHANGED <<plugin, openCalls, opened, queueVars, slot, loadVars>>

InitDb ==
  /\ dbCache = [p \in Paths |-> NoEntry]
  /\ dbLoadPromises = [p \in Paths |-> 0]
  /\ loadPromise = <<>>
  /\ conn = <<>>

\* A reader component before it is mounted.
NewReader ==
  [life |-> "new", pc |-> "idle",
   ticket |-> 0, releaseSlot |-> 0,
   hasAcquiredLoadingSlot |-> FALSE, hasSignaledLoadComplete |-> FALSE,
   spl |-> FALSE, dbPath |-> "", db |-> 0, extraDb |-> 0,
   promise |-> 0, joined |-> FALSE,
   slotReleases |-> 0, signals |-> 0,
   failure |-> "",
   held |-> [p \in Paths |-> 0]]

InitReaders == rd = [r \in Readers |-> NewReader]

\* No layer is being extracted.
InitFilter ==
  /\ sqlFilter = <<>>
  /\ fetchPc = "done"
  /\ execLog = <<>>

\* The keys of joinDataCache for one join configuration: the key of a call
\* without neededColumn ends in '*', the key of a call with one names it.
JoinKeys == {"*", "col"}

\* buildGeoFeatures is not running.
NoBuild ==
  [pc |-> "idle", layers |-> <<>>, i |-> 0, mainHasJoinTable |-> FALSE,
   loadedExtraDbs |-> FALSE, loader |-> "unused", joinedData |-> "undefined",
   out |-> <<>>]

Users == 1..NumUsers

\* No caller has asked for the engine.
NoUsers == [pc |-> [u \in Users |-> "idle"], inits |-> 0, afterZero |-> FALSE]

NoTeardown == [clears |-> 0, strays |-> 0, sqlStrays |-> 0, sqlHolders |-> 0]

\* A JavaScript value of a numeric option: undefined, NaN (also what
\* Number() makes of a text that is no number), or the fraction n/d.
Undefined == [k |-> "undefined", n |-> 0, d |-> 1]
NaN == [k |-> "NaN", n |-> 0, d |-> 1]
Num(n, d) == [k |-> "num", n |-> n, d |-> d]

\* extractGeometries has not been called.
NoExtraction ==
  [pc |-> "idle", geometryLimit |-> Undefined, coordinatePrecision |-> Undefined,
   totalMaps |-> 0, limit |-> Undefined, precision |-> Undefined]

\* No join is being made.
NoJoin == [pc |-> "idle", path |-> "", type |-> "", main |-> <<>>, sec |-> <<>>,
           out |-> <<>>]

\* No function is under check.
NoCall == [pc |-> "idle"]

InitAux ==
  /\ build = NoBuild
  /\ engineUser = NoUsers
  /\ teardown = NoTeardown
  /\ extraction = NoExtraction
  /\ joinRun = NoJoin
  /\ call = NoCall
  /\ joinDataCache = [k \in JoinKeys |-> "absent"]

InitCallers ==
  /\ caller = [c \in Callers |-> Idle]
  /\ openCalls = 0
  /\ opened = [p \in Paths |-> 0]
  /\ released = [p \in Paths |-> 0]

Init ==
  /\ plugin \in Plugins
  /\ InitDb
  /\ InitCallers
  /\ InitQueue
  /\ slot = <<>>
  /\ InitEngine
  /\ InitReaders
  /\ InitFilter
  /\ InitAux

Next ==
  \/ \E c \in Callers, p \in Paths : OpenDb(c, p)
  \/ \E k \in 1..MaxOpens : ParseResolves(k)
  \/ \E k \in 1..MaxOpens : ParseRejects(k)
  \/ \E c \in Callers : JoinResume(c)
  \/ \E c \in Callers : LoadResume(c)
  \/ \E c \in Callers : ReleaseDb(c)

Spec == Init /\ [][Next]_vars

\* ------------------------------------------------------------ claims, Spec
\* An openDb(p) call has been issued and has not returned yet.
InOpenDb(p) ==
  \E c \in Callers : caller[c].path = p /\ caller[c].pc \in {"awaitJoin", "awaitLoad"}

ConnsOf(p) == {i \in 1..Len(conn) : conn[i].path = p}

PendingLoads(p) ==
  {k \in 1..Len(loadPromise) : loadPromise[k].path = p /\ loadPromise[k].state = "pending"}

\* C4: while a parse for a path is in flight no second parse is started for
\* it: the one pending load promise is the one in dbLoadPromises, all openDb
\* calls made meanwhile wait on it, and all callers that waited on one load
\* promise hold the same connection.
C4_Coalesced ==
  /\ \A p \in Paths : Cardinality(PendingLoads(p)) <= 1
  /\ \A p \in Paths : \A k \in PendingLoads(p) : dbLoadPromises[p] = k
  /\ \A c \in Callers :
       (caller[c].pc \in {"awaitJoin", "awaitLoad"}
          /\ loadPromise[caller[c].promise].state = "pending")
         => caller[c].promise = dbLoadPromises[caller[c].path]
  /\ \A c1, c2 \in Callers :
       (caller[c1].pc = "holding" /\ caller[c2].pc = "holding"
          /\ caller[c1].promise # 0 /\ caller[c1].promise = caller[c2].promise)
         => caller[c1].db = caller[c2].db

\* Three callers opened a path while its parse was in flight; one parse ran
\* and all three hold its connection.
C4_Witness ==
  \E p \in Paths :
    /\ \A c \in Callers : caller[c].pc = "holding" /\ caller[c].path = p /\ caller[c].promise = 1
    /\ Len(loadPromise) = 1
    /\ dbCache[p].refCount = 3
    /\ \A c \in Callers : caller[c].db = dbCache[p].db

\* C5: a rejected load promise is never left in dbLoadPromises, so that a
\* later openDb(path) starts a fresh parse.
C5_RejectClearsMarker ==
  \A p \in Paths :
    dbLoadPromises[p] # 0 => loadPromise[dbLoadPromises[p]].state # "rejected"

\* ------------------------------------------------ SpecLoad: reader components
\* The plugin whose reader component and modules are loaded:
\*   "aequilibrae"    AequilibraEReader.vue with useAequilibrae.ts
\*   "aequilibrae.1"  AequilibraEReader.vue with the revision of
\*                    useAequilibrae.ts whose buildGeoFeatures closes the
\*                    extra databases it loaded
\*   "polaris"        PolarisReader.vue with usePolaris.ts
ReaderPlugins == {"aequilibrae", "aequilibrae.1", "polaris"}

MainDb == "a.db"         \* vizDetails.database / vizDetails.supplyDatabase
ExtraDb == "b.db"        \* vizDetails.extraDatabases[layerConfig.join.database]

SetRd(r, rec) == rd' = [rd EXCEPT ![r] = rec]

\* signalLoadComplete() without the hasSignaledLoadComplete test.
shouldSignal_noFlag(rec) ==
  rec.hasAcquiredLoadingSlot

\* signalLoadComplete(): if (!hasAcquiredLoadingSlot || hasSignaledLoadComplete) return
shouldSignal(rec) ==
  rec.hasAcquiredLoadingSlot /\ ~rec.hasSignaledLoadComplete

\* PolarisReader.signalLoadComplete() on the pair (queue, reader).
signalLoadComplete(w) ==
  IF shouldSignal(w.rec)
  THEN [q |-> mapLoadingComplete(w.q),
        rec |-> [w.rec EXCEPT !.hasSignaledLoadComplete = TRUE, !.signals = @ + 1]]
  ELSE w

\* `if (releaseSlot) { releaseSlot() }` that leaves the local variable set.
mountedRelease_keep(w) ==
  IF w.rec.releaseSlot # 0
  THEN [q |-> releaseSlot(w.q, w.rec.releaseSlot),
        rec |-> [w.rec EXCEPT !.slotReleases = @ + 1]]
  ELSE w

\* mounted(), after extractGeometries:
\* `if (releaseSlot) { releaseSlot(); releaseSlot = null }`
mountedRelease(w) ==
  IF w.rec.releaseSlot # 0
  THEN [q |-> releaseSlot(w.q, w.rec.releaseSlot),
        rec |-> [w.rec EXCEPT !.releaseSlot = 0, !.slotReleases = @ + 1]]
  ELSE w

\* mounted(), the finally block: `if (releaseSlot) releaseSlot()`, and in
\* PolarisReader `this.signalLoadComplete()`; the load cycle has ended.
mountedFinally(w, plg) ==
  LET w1 == IF w.rec.releaseSlot # 0
            THEN [q |-> releaseSlot(w.q, w.rec.releaseSlot),
                  rec |-> [w.rec EXCEPT !.slotReleases = @ + 1]]
            ELSE w
      w2 == IF plg = "polaris" THEN signalLoadComplete(w1) ELSE w1
  IN [w2 EXCEPT !.rec.pc = "done", !.rec.promise = 0]

\* The load cycle of reader r, its fields being rec, leaves the try block of
\* mounted() by a throw.
ThrowWith(r, rec) ==
  LET w == mountedFinally([q |-> QueueState, rec |-> rec], plugin)
  IN /\ SetQueue(w.q)
     /\ SetRd(r, w.rec)

Throw(r) == ThrowWith(r, rd[r])

\* mounted() up to its first await.  PolarisReader returns if it is a
\* thumbnail and else asks for a slot at once; AequilibraEReader first awaits
\* initBackgroundLayers().
Mount(r, thumbnail) ==
  /\ rd[r].life = "new"
  /\ LET rec == [rd[r] EXCEPT !.life = "mounted"]
     IN IF plugin # "polaris"
        THEN SetRd(r, [rec EXCEPT !.pc = "bg"]) /\ UNCHANGED queueVars
        ELSE IF thumbnail
        THEN SetRd(r, [rec EXCEPT !.pc = "done"]) /\ UNCHANGED queueVars
        ELSE /\ SetQueue(acquireLoadingSlot(QueueState))
             /\ SetRd(r, [rec EXCEPT !.pc = "slot", !.ticket = Len(ticket) + 1])
  /\ UNCHANGED <<plugin, dbVars, callerVars, slot, engineVars, filterVars, auxVars>>

\* AequilibraEReader.mounted() after `await this.initBackgroundLayers()`:
\* `if (this.thumbnail) { this.$emit('isLoaded'); return }`, else the slot
\* is requested.
BgLoaded(r, thumbnail) ==
  /\ rd[r].pc = "bg"
  /\ IF thumbnail
     THEN SetRd(r, [rd[r] EXCEPT !.pc = "done"]) /\ UNCHANGED queueVars
     ELSE /\ SetQueue(acquireLoadingSlot(QueueState))
          /\ SetRd(r, [rd[r] EXCEPT !.pc = "slot", !.ticket = Len(ticket) + 1])
  /\ UNCHANGED <<plugin, dbVars, callerVars, slot, engineVars, filterVars, auxVars>>

\* `releaseSlot = await acquireLoadingSlot()` continues; getVizDetails starts.
ReaderSlotGranted(r) ==
  /\ rd[r].pc = "slot"
  /\ myTurn(QueueState, rd[r].ticket)
  /\ SetRd(r, [rd[r] EXCEPT !.pc = "viz", !.releaseSlot = rd[r].ticket,
                            !.hasAcquiredLoadingSlot = (plugin = "polaris")])
  /\ UNCHANGED <<plugin, dbVars, callerVars, queueVars, slot, engineVars, filterVars, auxVars>>

\* getVizDetails (and, in PolarisReader, initBackgroundLayers) returned;
\* loadDatabase runs up to `await initSql()`.
VizLoaded(r) ==
  /\ rd[r].pc = "viz"
  /\ SetEngine(initSql(EngineState))
  /\ SetRd(r, [rd[r] EXCEPT !.pc = "sql"])
  /\ UNCHANGED <<plugin, dbVars, callerVars, queueVars, slot, filterVars, auxVars>>

\* getVizDetails throws (no database in the configuration, YAML not found).
VizFails(r) ==
  /\ rd[r].pc = "viz"
  /\ Throw(r)
  /\ UNCHANGED <<plugin, dbVars, callerVars, slot, engineVars, filterVars, auxVars>>

\* AequilibraEReader.getVizDetails with an inline config that has neither
\* `database` nor `file`: resolvePath(undefined) throws 'File path is
\* required' before loadDatabase() is called.
VizNoDbPath(r) ==
  /\ rd[r].pc = "viz"
  /\ plugin = "aequilibrae"
  /\ ThrowWith(r, [rd[r] EXCEPT !.failure = "noDbPath"])
  /\ UNCHANGED <<plugin, dbVars, callerVars, slot, engineVars, filterVars, auxVars>>

\* SPL() resolved: sharedSpl = spl; splInitPromise = null
SplResolves ==
  /\ splInitPromise = "pending"
  /\ sharedSpl' = TRUE
  /\ splInitPromise' = "none"
  /\ UNCHANGED <<plugin, dbVars, callerVars, queueVars, slot, splRefCount, splCalls, rd, filterVars, auxVars>>

\* SPL() rejected: the then-callback does not run.
SplRejects ==
  /\ splInitPromise = "pending"
  /\ splInitPromise' = "rejected"
  /\ UNCHANGED <<plugin, dbVars, callerVars, queueVars, slot, sharedSpl, splRefCount, splCalls, rd, filterVars, auxVars>>

\* `this.spl = await initSql()` continues: dbPath is set, the file is fetched.
SqlReady(r) ==
  /\ rd[r].pc = "sql"
  /\ sharedSpl
  /\ SetRd(r, [rd[r] EXCEPT !.pc = "blob", !.spl = TRUE, !.dbPath = MainDb])
  /\ UNCHANGED <<plugin, dbVars, callerVars, queueVars, slot, engineVars, filterVars, auxVars>>

\* PolarisReader.loadDatabase with an inline config that has no
\* supplyDatabase (getVizDetails resolves the path only if it is there):
\* `this.spl = await initSql()` has continued, this.dbPath = '' and
\* 'No supply database path found' is thrown.
NoDbPath(r) ==
  /\ rd[r].pc = "sql"
  /\ sharedSpl
  /\ plugin = "polaris"
  /\ ThrowWith(r, [rd[r] EXCEPT !.spl = TRUE, !.dbPath = "", !.failure = "noDbPath"])
  /\ UNCHANGED <<plugin, dbVars, callerVars, slot, engineVars, filterVars, auxVars>>

SqlFails(r) ==
  /\ rd[r].pc = "sql"
  /\ splInitPromise = "rejected"
  /\ Throw(r)
  /\ UNCHANGED <<plugin, dbVars, callerVars, slot, engineVars, filterVars, auxVars>>

\* openDb(spl, arrayBuffer, path) up to its first await, called by a reader
\* whose this.spl is set (splOk) or null.  With spl null the IIFE throws at
\* `spl.db`, and the rejected promise is then stored in dbLoadPromises.
readerOpenDb(st, p, splOk) ==
  LET br == openDbBranch(st, p)
      k == Len(st.loadPromise) + 1
      ld == openDbLoad(st, p)
  IN CASE br = "cached" ->
            [st |-> openDbCached(st, p), br |-> br, promise |-> 0, db |-> st.dbCache[p].db]
       [] br = "join" ->
            [st |-> st, br |-> br, promise |-> st.dbLoadPromises[p], db |-> 0]
       [] br = "load" ->
            [st |-> IF splOk THEN ld ELSE [ld EXCEPT !.loadPromise[k].state = "rejected"],
             br |-> br, promise |-> k, db |-> 0]

\* loadDatabase: the file is there, `this.db = await openDb(this.spl, blob,
\* this.dbPath)` is called.  PolarisReader's cleanup may have emptied dbPath
\* and spl by now: openDb(null, blob, '') throws.
MainOpen(r) ==
  /\ rd[r].pc = "blob"
  /\ IF rd[r].dbPath = ""
     THEN Throw(r) /\ UNCHANGED <<dbVars, opened>>
     ELSE LET p == rd[r].dbPath
              o == readerOpenDb(DbState, p, rd[r].spl)
          IN /\ SetDb(o.st)
             /\ UNCHANGED queueVars
             /\ IF o.br = "cached"
                THEN /\ SetRd(r, [rd[r] EXCEPT !.pc = "tables", !.db = o.db,
                                               !.held[p] = @ + 1])
                     /\ opened' = [opened EXCEPT ![p] = @ + 1]
                ELSE /\ SetRd(r, [rd[r] EXCEPT !.pc = "awaitOpen", !.promise = o.promise,
                                               !.joined = (o.br = "join")])
                     /\ UNCHANGED opened
  /\ UNCHANGED <<plugin, caller, openCalls, released, slot, engineVars, filterVars, auxVars>>

\* getFileBlob / loadPolarisDatabase fails.
BlobFails(r) ==
  /\ rd[r].pc = "blob"
  /\ Throw(r)
  /\ UNCHANGED <<plugin, dbVars, callerVars, slot, engineVars, filterVars, auxVars>>

\* `this.db = await openDb(...)` continues with the connection.
DbOpened(r) ==
  /\ rd[r].pc = "awaitOpen"
  /\ loadPromise[rd[r].promise].state = "fulfilled"
  /\ LET p == loadPromise[rd[r].promise].path
     IN /\ SetDb(IF rd[r].joined THEN openDbJoined(DbState, p) ELSE DbState)
        /\ SetRd(r, [rd[r] EXCEPT !.pc = "tables", !.db = loadPromise[rd[r].promise].db,
                                  !.promise = 0, !.held[p] = @ + 1])
        /\ opened' = [opened EXCEPT ![p] = @ + 1]
  /\ UNCHANGED <<plugin, caller, openCalls, released, queueVars, slot, engineVars, filterVars, auxVars>>

DbOpenFails(r) ==
  /\ rd[r].pc = "awaitOpen"
  /\ loadPromise[rd[r].promise].state = "rejected"
  /\ Throw(r)
  /\ UNCHANGED <<plugin, dbVars, callerVars, slot, engineVars, filterVars, auxVars>>

\* buildTables returned; extractGeometries calls buildGeoFeatures, which asks
\* the lazy loader for the extra database if the layer has a join (usePolaris
\* has no joins).
TablesBuilt(r, join) ==
  /\ rd[r].pc = "tables"
  /\ join => plugin # "polaris"
  /\ SetRd(r, [rd[r] EXCEPT !.pc = IF join THEN "extraBlob" ELSE "build"])
  /\ UNCHANGED <<plugin, dbVars, callerVars, queueVars, slot, engineVars, filterVars, auxVars>>

TablesFail(r) ==
  /\ rd[r].pc = "tables"
  /\ Throw(r)
  /\ UNCHANGED <<plugin, dbVars, callerVars, slot, engineVars, filterVars, auxVars>>

\* createLazyDbLoader: `return await openDb(this.spl, arrayBuffer, path)`
ExtraOpen(r) ==
  /\ rd[r].pc = "extraBlob"
  /\ LET o == readerOpenDb(DbState, ExtraDb, rd[r].spl)
     IN /\ SetDb(o.st)
        /\ IF o.br = "cached"
           THEN /\ SetRd(r, [rd[r] EXCEPT !.pc = "build", !.extraDb = o.db,
                                          !.held[ExtraDb] = @ + 1])
                /\ opened' = [opened EXCEPT ![ExtraDb] = @ + 1]
           ELSE /\ SetRd(r, [rd[r] EXCEPT !.pc = "awaitExtra", !.promise = o.promise,
                                          !.joined = (o.br = "join")])
                /\ UNCHANGED opened
  /\ UNCHANGED <<plugin, caller, openCalls, released, queueVars, slot, engineVars, filterVars, auxVars>>

\* The lazy loader catches a failed download and returns null.
ExtraBlobFails(r) ==
  /\ rd[r].pc = "extraBlob"
  /\ SetRd(r, [rd[r] EXCEPT !.pc = "build"])
  /\ UNCHANGED <<plugin, dbVars, callerVars, queueVars, slot, engineVars, filterVars, auxVars>>

\* loadedExtraDbs.set(joinConfig.database, maybeDb)
ExtraOpened(r) ==
  /\ rd[r].pc = "awaitExtra"
  /\ loadPromise[rd[r].promise].state = "fulfilled"
  /\ SetDb(IF rd[r].joined THEN openDbJoined(DbState, ExtraDb) ELSE DbState)
  /\ SetRd(r, [rd[r] EXCEPT !.pc = "build", !.extraDb = loadPromise[rd[r].promise].db,
                            !.promise = 0, !.held[ExtraDb] = @ + 1])
  /\ opened' = [opened EXCEPT ![ExtraDb] = @ + 1]
  /\ UNCHANGED <<plugin, caller, openCalls, released, queueVars, slot, engineVars, filterVars, auxVars>>

\* The lazy loader catches the rejected openDb and returns null.
ExtraOpenFails(r) ==
  /\ rd[r].pc = "awaitExtra"
  /\ loadPromise[rd[r].promise].state = "rejected"
  /\ SetRd(r, [rd[r] EXCEPT !.pc = "build", !.promise = 0])
  /\ UNCHANGED <<plugin, dbVars, callerVars, queueVars, slot, engineVars, filterVars, auxVars>>

\* buildGeoFeatures, the finally block: useAequilibrae.ts only clears
\* loadedExtraDbs; the other revision calls extraDb.close() on each of them.
buildFinally(cn, rec, plg) ==
  IF plg = "aequilibrae.1" /\ rec.extraDb # 0 THEN closeConn(cn, rec.extraDb) ELSE cn

\* PolarisReader.releaseMainDatabase(): if (this.dbPath) { releaseDb(this.dbPath);
\* this.dbPath = '' }; this.db = null.  AequilibraEReader's only sets db = null.
releaseMainDatabase(st, rec, plg) ==
  IF plg = "polaris" /\ rec.dbPath # ""
  THEN [st |-> releaseDb(st, rec.dbPath),
        rec |-> [rec EXCEPT !.dbPath = "", !.db = 0, !.held[rec.dbPath] = Max(0, @ - 1)],
        path |-> rec.dbPath]
  ELSE [st |-> st, rec |-> [rec EXCEPT !.db = 0], path |-> ""]

\* buildGeoFeatures returned the features; extractGeometries releases the
\* main database and waits before building the styles.
BuildDone(r) ==
  /\ rd[r].pc = "build"
  /\ LET cn == buildFinally(conn, rd[r], plugin)
         m == releaseMainDatabase([DbState EXCEPT !.conn = cn],
                                  [rd[r] EXCEPT !.extraDb = 0], plugin)
     IN /\ SetDb(m.st)
        /\ SetRd(r, [m.rec EXCEPT !.pc = "styles"])
        /\ released' = IF m.path = "" THEN released
                       ELSE [released EXCEPT ![m.path] = @ + 1]
  /\ UNCHANGED <<plugin, caller, openCalls, opened, queueVars, slot, engineVars, filterVars, auxVars>>

\* A query of buildGeoFeatures throws: its finally block runs, the error
\* reaches mounted().
BuildFails(r) ==
  /\ rd[r].pc = "build"
  /\ conn' = buildFinally(conn, rd[r], plugin)
  /\ ThrowWith(r, [rd[r] EXCEPT !.extraDb = 0])
  /\ UNCHANGED <<plugin, dbCache, dbLoadPromises, loadPromise, callerVars, slot, engineVars, filterVars, auxVars>>

\* extractGeometries returned: mounted() releases the slot and ends.
StylesDone(r) ==
  /\ rd[r].pc = "styles"
  /\ LET w == mountedFinally(mountedRelease([q |-> QueueState, rec |-> rd[r]]), plugin)
     IN SetQueue(w.q) /\ SetRd(r, w.rec)
  /\ UNCHANGED <<plugin, dbVars, callerVars, slot, engineVars, filterVars, auxVars>>

\* The reaction of a settled openDb promise is still queued in a reader.
ReactionPending ==
  \E r \in Readers : /\ rd[r].pc \in {"awaitOpen", "awaitExtra"}
                     /\ loadPromise[rd[r].promise].state # "pending"

\* beforeUnmount().  AequilibraEReader: cleanupMemory(); mapLoadingComplete().
\* PolarisReader: cleanupMemory(); signalLoadComplete(), where cleanupMemory
\* continues in microtasks: releaseMainDatabase, releaseSql, spl = null.
BeforeUnmount(r) ==
  /\ rd[r].life = "mounted"
  /\ ~ReactionPending
  /\ SetEngine(releaseSql(EngineState))
  /\ IF plugin = "polaris"
     THEN LET w == signalLoadComplete([q |-> QueueState, rec |-> rd[r]])
              m == releaseMainDatabase(DbState, w.rec, plugin)
          IN /\ SetQueue(w.q)
             /\ SetDb(m.st)
             /\ SetRd(r, [m.rec EXCEPT !.life = "gone", !.spl = FALSE])
             /\ released' = IF m.path = "" THEN released
                            ELSE [released EXCEPT ![m.path] = @ + 1]
     ELSE /\ SetQueue(mapLoadingComplete(QueueState))
          /\ SetRd(r, [rd[r] EXCEPT !.life = "gone", !.spl = FALSE, !.db = 0,
                                    !.signals = @ + 1])
          /\ UNCHANGED <<dbVars, released>>
  /\ UNCHANGED <<plugin, caller, openCalls, opened, slot, filterVars, auxVars>>

InitLoad ==
  /\ plugin \in ReaderPlugins
  /\ InitDb
  /\ InitCallers
  /\ InitQueue
  /\ slot = <<>>
  /\ InitEngine
  /\ InitReaders
  /\ InitFilter
  /\ InitAux

NextLoad ==
  \/ \E r \in Readers, thumbnail \in BOOLEAN : Mount(r, thumbnail)
  \/ \E r \in Readers, thumbnail \in BOOLEAN : BgLoaded(r, thumbnail)
  \/ \E r \in Readers : ReaderSlotGranted(r)
  \/ \E r \in Readers : VizLoaded(r)
  \/ \E r \in Readers : VizFails(r)
  \/ \E r \in Readers : VizNoDbPath(r)
  \/ SplResolves
  \/ SplRejects
  \/ \E r \in Readers : SqlReady(r)
  \/ \E r \in Readers : SqlFails(r)
  \/ \E r \in Readers : NoDbPath(r)
  \/ \E r \in Readers : MainOpen(r)
  \/ \E r \in Readers : BlobFails(r)
  \/ \E k \in 1..(2 * NumReaders) : ParseResolves(k)
  \/ \E k \in 1..(2 * NumReaders) : ParseRejects(k)
  \/ \E r \in Readers : DbOpened(r)
  \/ \E r \in Readers : DbOpenFails(r)
  \/ \E r \in Readers, join \in BOOLEAN : TablesBuilt(r, join)
  \/ \E r \in Readers : TablesFail(r)
  \/ \E r \in Readers : ExtraOpen(r)
  \/ \E r \in Readers : ExtraBlobFails(r)
  \/ \E r \in Readers : ExtraOpened(r)
  \/ \E r \in Readers : ExtraOpenFails(r)
  \/ \E r \in Readers : BuildDone(r)
  \/ \E r \in Readers : BuildFails(r)
  \/ \E r \in Readers : StylesDone(r)
  \/ \E r \in Readers : BeforeUnmount(r)

SpecLoad == InitLoad /\ [][NextLoad]_vars

\* The load cycles of readers whose layers join no extra database and whose
\* configuration names the database: NextLoad without the steps of the extra
\* database.
NextCycle ==
  \/ \E r \in Readers, thumbnail \in BOOLEAN : Mount(r, thumbnail)
  \/ \E r \in Readers, thumbnail \in BOOLEAN : BgLoaded(r, thumbnail)
  \/ \E r \in Readers : ReaderSlotGranted(r)
  \/ \E r \in Readers : VizLoaded(r)
  \/ \E r \in Readers : VizFails(r)
  \/ SplResolves
  \/ SplRejects
  \/ \E r \in Readers : SqlReady(r)
  \/ \E r \in Readers : SqlFails(r)
  \/ \E r \in Readers : MainOpen(r)
  \/ \E r \in Readers : BlobFails(r)
  \/ \E k \in 1..(2 * NumReaders) : ParseResolves(k)
  \/ \E k \in 1..(2 * NumReaders) : ParseRejects(k)
  \/ \E r \in Readers : DbOpened(r)
  \/ \E r \in Readers : DbOpenFails(r)
  \/ \E r \in Readers : TablesBuilt(r, FALSE)
  \/ \E r \in Readers : TablesFail(r)
  \/ \E r \in Readers : BuildDone(r)
  \/ \E r \in Readers : BuildFails(r)
  \/ \E r \in Readers : StylesDone(r)
  \/ \E r \in Readers : BeforeUnmount(r)

SpecCycle == InitLoad /\ [][NextCycle]_vars

\* --------------------------------------------------------- claims, SpecLoad
\* Reader r holds a handle of connection i (this.db, or loadedExtraDbs).
Holds(r, i) == i # 0 /\ (rd[r].db = i \/ rd[r].extraDb = i)

\* The load cycle of reader r has ended and its component is torn down.
Finished(r) == rd[r].pc = "done" /\ rd[r].life = "gone"

\* C2: while fewer releaseDb calls than completed openDb calls have been made
\* for a path, the cache still has the path's connection, that connection is
\* not closed, and every reader that holds a connection of the path holds a
\* live one.
C2_AliveWhileHeld ==
  \A p \in Paths :
    released[p] < opened[p] =>
      /\ dbCache[p].db # 0
      /\ conn[dbCache[p].db].open
      /\ \A r \in Readers : \A i \in ConnsOf(p) : Holds(r, i) => conn[i].open

\* C6: the release callback of every slot a reader acquired is invoked exactly
\* once by the end of its load cycle, and never more than once, whether the
\* cycle ended normally or by a throw; the queue length counts the tickets
\* whose callback has not been invoked.
C6_SlotReleasedOnce ==
  /\ \A r \in Readers :
       /\ rd[r].slotReleases <= 1
       /\ (rd[r].pc = "done" /\ rd[r].ticket # 0) => rd[r].slotReleases = 1
       /\ rd[r].ticket # 0 => (ticket[rd[r].ticket].resolved <=> rd[r].slotReleases = 1)
  /\ queueLength = Cardinality({t \in 1..Len(ticket) : ~ticket[t].resolved})

\* Two AequilibraEReader cycles have ended, one by a throw before its
\* database was opened, the other after it was opened; each released its
\* slot once.
C6_Witness ==
  \E r1, r2 \in Readers :
    /\ plugin = "aequilibrae"
    /\ rd[r1].pc = "done" /\ rd[r1].slotReleases = 1 /\ rd[r1].held[MainDb] = 0
    /\ rd[r2].pc = "done" /\ rd[r2].slotReleases = 1 /\ rd[r2].held[MainDb] = 1

\* C7: the gauge counts no load cycle that has ended and whose component's
\* cleanup has run: it is at most the number of cycles that requested a slot
\* and are not finished.
C7_GaugeDecremented ==
  totalMapsLoading <=
    Cardinality({r \in Readers : rd[r].ticket # 0 /\ ~Finished(r)})

\* C8: a reader that is torn down and whose load cycle has ended holds no
\* database reference: each openDb call that gave it a connection has been
\* followed by a releaseDb call of its own for that path.
C8_NoReferenceLeft ==
  \A r \in Readers :
    Finished(r) => \A p \in Paths : rd[r].held[p] = 0

\* C12: when buildGeoFeatures has ended, by returning or by throwing, the
\* reader has released every extra database the call acquired through the
\* lazy loader: no reference of the call is left on the extra path.
C12_ExtraReleasedAtEnd ==
  \A r \in Readers :
    rd[r].pc \in {"styles", "done"} => rd[r].held[ExtraDb] = 0

\* C9: a reader calls mapLoadingComplete at most once.
C9_SignalAtMostOnce ==
  \A r \in Readers : rd[r].signals <= 1

\* A PolarisReader whose cycle has ended and which is torn down: both the
\* finally block and beforeUnmount called signalLoadComplete.
C9_Witness ==
  \E r \in Readers :
    /\ plugin = "polaris"
    /\ Finished(r)
    /\ rd[r].hasAcquiredLoadingSlot
    /\ rd[r].signals = 1

\* ------------------------------------- SpecFilter: the layer's sqlFilter
\* fetchGeoJSONFeatures of sqlite-map/db.ts, polaris/db.ts and
\* aequilibrae/db.ts builds the WHERE clause of a layer's query from
\* layerConfig.sqlFilter.  A filter is a sequence of characters.
FilterPlugins == {"sqlite-map", "polaris", "aequilibrae"}

Chars == {"D", "r", "O", "p", ";", "-", " "}
Filters == UNION {[1..n -> Chars] : n \in 0..MaxFilterLen}

\* String.prototype.toUpperCase, on one character
toUpperCase(ch) ==
  CASE ch = "r" -> "R"
    [] ch = "p" -> "P"
    [] OTHER -> ch

\* \w of the regular expression
IsWordChar(ch) == ch \notin {";", "-", " "}

\* String.prototype.trim
RECURSIVE trim(_)
trim(f) ==
  IF f = <<>> THEN f
  ELSE IF Head(f) = " " THEN trim(Tail(f))
  ELSE IF f[Len(f)] = " " THEN trim(SubSeq(f, 1, Len(f) - 1))
  ELSE f

\* The alternatives of the group in unsafePattern.
UnsafeKeywords ==
  { <<"A","L","T","E","R">>, <<"D","R","O","P">>, <<"I","N","S","E","R","T">>,
    <<"U","P","D","A","T","E">>, <<"D","E","L","E","T","E">>,
    <<"R","E","P","L","A","C","E">>, <<"A","T","T","A","C","H">>,
    <<"D","E","T","A","C","H">>, <<"V","A","C","U","U","M">>,
    <<"P","R","A","G","M","A">> }

\* \b(K)\b matches in f at position i, ignoring case.
MatchesWordAt(f, K, i) ==
  /\ i + Len(K) - 1 <= Len(f)
  /\ \A j \in 1..Len(K) : toUpperCase(f[i + j - 1]) = K[j]
  /\ (i = 1 \/ ~IsWordChar(f[i - 1]))
  /\ (i + Len(K) - 1 = Len(f) \/ ~IsWordChar(f[i + Len(K)]))

HasKeyword(f) ==
  \E K \in UnsafeKeywords : \E i \in 1..Len(f) : MatchesWordAt(f, K, i)

HasSeparator(f) == \E i \in 1..Len(f) : f[i] = ";"

\* unsafePattern.test(sqlFilter):
\* /;|--|\b(ALTER|DROP|...|PRAGMA)\b/i
unsafePattern(f) ==
  \/ HasSeparator(f)
  \/ \E i \in 1..(Len(f) - 1) : f[i] = "-" /\ f[i + 1] = "-"
  \/ HasKeyword(f)

\* fetchGeoJSONFeatures from the filter clause on: the outcome and the filter
\* of the query given to db.exec.  Only sqlite-map/db.ts tests the filter.
fetchGeoJSONFeatures(plg, f) ==
  IF Len(trim(f)) = 0
  THEN [pc |-> "done", exec |-> <<[hasFilter |-> FALSE, filter |-> <<>>]>>]
  ELSE IF plg = "sqlite-map"
  THEN IF unsafePattern(trim(f))
       THEN [pc |-> "threw", exec |-> <<>>]
       ELSE [pc |-> "done", exec |-> <<[hasFilter |-> TRUE, filter |-> trim(f)]>>]
  ELSE [pc |-> "done", exec |-> <<[hasFilter |-> TRUE, filter |-> f]>>]

FetchGeoJSONFeatures ==
  /\ fetchPc = "start"
  /\ LET o == fetchGeoJSONFeatures(plugin, sqlFilter)
     IN /\ fetchPc' = o.pc
        /\ execLog' = execLog \o o.exec
  /\ UNCHANGED <<plugin, dbVars, callerVars, queueVars, slot, engineVars, rd, sqlFilter, auxVars>>

InitFilterSpec ==
  /\ plugin \in FilterPlugins
  /\ InitDb
  /\ InitCallers
  /\ InitQueue
  /\ slot = <<>>
  /\ InitEngine
  /\ InitReaders
  /\ sqlFilter \in Filters
  /\ fetchPc = "start"
  /\ execLog = <<>>
  /\ InitAux

NextFilter == FetchGeoJSONFeatures

SpecFilter == InitFilterSpec /\ [][NextFilter]_vars

\* C10: a sqlFilter that contains a statement separator or one of the DDL/DML
\* keywords makes the extraction throw, and no query that contains such a
\* filter is given to db.exec.
C10_UnsafeFilterRejected ==
  /\ \A i \in 1..Len(execLog) :
       ~(HasSeparator(execLog[i].filter) \/ HasKeyword(execLog[i].filter))
  /\ (fetchPc # "start" /\ (HasSeparator(sqlFilter) \/ HasKeyword(sqlFilter)))
       => fetchPc = "threw"

\* ------------------------------------------------ SpecQueue: the queue alone
\* Callers of the admission queue: each asks for a slot, gets it when its turn
\* comes, invokes the release callback once and signals load completion once.
AcquireLoadingSlot ==
  /\ Len(ticket) < MaxTickets
  /\ SetQueue(acquireLoadingSlot(QueueState))
  /\ slot' = Append(slot, [pc |-> "waiting", signalled |-> FALSE])
  /\ UNCHANGED <<plugin, dbVars, callerVars, loadVars>>

\* `myTurn.then(() => releaseSlot)` resolves the caller's promise.
SlotGranted(t) ==
  /\ t \in 1..Len(slot)
  /\ slot[t].pc = "waiting"
  /\ myTurn(QueueState, t)
  /\ slot' = [slot EXCEPT ![t].pc = "granted"]
  /\ UNCHANGED <<plugin, dbVars, callerVars, queueVars, loadVars>>

ReleaseSlot(t) ==
  /\ t \in 1..Len(slot)
  /\ slot[t].pc = "granted"
  /\ SetQueue(releaseSlot(QueueState, t))
  /\ slot' = [slot EXCEPT ![t].pc = "released"]
  /\ UNCHANGED <<plugin, dbVars, callerVars, loadVars>>

MapLoadingComplete(t) ==
  /\ t \in 1..Len(slot)
  /\ ~slot[t].signalled
  /\ SetQueue(mapLoadingComplete(QueueState))
  /\ slot' = [slot EXCEPT ![t].signalled = TRUE]
  /\ UNCHANGED <<plugin, dbVars, callerVars, loadVars>>

InitQueueSpec ==
  /\ plugin = "sqlite-map"
  /\ InitDb
  /\ InitCallers
  /\ InitQueue
  /\ slot = <<>>
  /\ InitEngine
  /\ InitReaders
  /\ InitFilter
  /\ InitAux

NextQueue ==
  \/ AcquireLoadingSlot
  \/ \E t \in 1..MaxTickets : SlotGranted(t)
  \/ \E t \in 1..MaxTickets : ReleaseSlot(t)
  \/ \E t \in 1..MaxTickets : MapLoadingComplete(t)

SpecQueue == InitQueueSpec /\ [][NextQueue]_vars

\* C3: slots are granted in request order, one at a time: a ticket's promise
\* has resolved only if the release callback of every earlier ticket has been
\* invoked, and at most one granted slot is unreleased.
C3_Fifo ==
  /\ \A t \in 1..Len(slot) :
       slot[t].pc # "waiting" => \A u \in 1..(t - 1) : ticket[u].resolved
  /\ Cardinality({t \in 1..Len(slot) : slot[t].pc = "granted"}) <= 1

\* A, B and C asked in that order; A and B have released, C holds the slot.
C3_Witness ==
  /\ Len(slot) >= 3
  /\ slot[1].pc = "released" /\ slot[2].pc = "released" /\ slot[3].pc = "granted"

\* ------------------------------------------ SpecBuild: buildGeoFeatures
\* One call of buildGeoFeatures(db, tables, layerConfigs, lazyDbLoader,
\* options) with a lazyDbLoader, over layers that have a table with a
\* geometry column.  All joins name the same extra database and join table.
\* A layer is [join, needed]: whether it has a join, and whether its style
\* names a join column (getNeededJoinColumn).  mainHasJoinTable tells whether
\* the main database has a table of the join table's name.
LayerConfigs == [join : BOOLEAN, needed : BOOLEAN]
LayerLists == UNION {[1..n -> LayerConfigs] : n \in 1..MaxLayers}
LoaderOutcomes == {"db", "null", "throws"}

joinCacheKey(needed) == IF needed THEN "col" ELSE "*"

\* getCachedJoinData(db, joinConfig, neededColumn): a cache hit returns the
\* cached map; a miss queries the join table in db, which rejects when db has
\* no such table, and caches the rows.  source names db: "extra" or "main".
getCachedJoinData(cache, key, source, hasTable) ==
  IF cache[key] # "absent" THEN [cache |-> cache, data |-> cache[key]]
  ELSE IF hasTable THEN [cache |-> [cache EXCEPT ![key] = source], data |-> source]
  ELSE [cache |-> cache, data |-> "threw"]

\* fetchGeoJSONFeatures: const cachedJoinedData =
\*   joinedData ?? (joinConfig ? await getCachedJoinData(db, joinConfig) : undefined)
joinLookup(cache, joinedData, joinConfig, mainHasTable) ==
  IF joinedData # "undefined" THEN [cache |-> cache, data |-> joinedData]
  ELSE IF joinConfig THEN getCachedJoinData(cache, "*", "main", mainHasTable)
  ELSE [cache |-> cache, data |-> "undefined"]

\* The top of the loop body, up to the first await of the layer.
BuildLayer ==
  /\ build.pc = "layer"
  /\ LET L == build.layers[build.i]
     IN build' = IF ~L.join
                 THEN [build EXCEPT !.pc = "fetch", !.loader = "unused",
                                    !.joinedData = "undefined"]
                 ELSE IF build.loadedExtraDbs
                 THEN [build EXCEPT !.pc = "joinData", !.loader = "reused",
                                    !.joinedData = "undefined"]
                 ELSE [build EXCEPT !.pc = "loader", !.joinedData = "undefined"]
  /\ UNCHANGED <<plugin, dbVars, callerVars, queueVars, slot, engineVars, rd,
                 filterVars, joinDataCache, engineUser, teardown, extraction, joinRun, call>>

\* `await lazyDbLoader(joinConfig.database)` settles.
LazyDbLoaderSettles(o) ==
  /\ build.pc = "loader"
  /\ build' = IF o = "db"
              THEN [build EXCEPT !.pc = "joinData", !.loader = o,
                                 !.loadedExtraDbs = TRUE]
              ELSE [build EXCEPT !.pc = "fetch", !.loader = o]
  /\ UNCHANGED <<plugin, dbVars, callerVars, queueVars, slot, engineVars, rd,
                 filterVars, joinDataCache, engineUser, teardown, extraction, joinRun, call>>

\* `joinedData = await getCachedJoinData(extraDb, joinConfig, neededColumn)`
\* settles; a rejection is caught and logged.
ExtraJoinData(ok) ==
  /\ build.pc = "joinData"
  /\ LET key == joinCacheKey(build.layers[build.i].needed)
         g == getCachedJoinData(joinDataCache, key, "extra", ok)
     IN /\ joinDataCache' = g.cache
        /\ build' = [build EXCEPT !.pc = "fetch",
                       !.joinedData = IF g.data = "threw" THEN "undefined" ELSE g.data]
  /\ UNCHANGED <<plugin, dbVars, callerVars, queueVars, slot, engineVars, rd,
                 filterVars, engineUser, teardown, extraction, joinRun, call>>

\* `await fetchGeoJSONFeatures(db, table, layerName, cfg, joinedData,
\* joinConfig, options)` settles, the features are pushed and the loop goes to
\* the next layer or returns; a rejection leaves through the finally.  ok
\* tells whether the feature query of the layer itself succeeds.
FetchLayer(ok) ==
  /\ build.pc = "fetch"
  /\ LET L == build.layers[build.i]
         g == joinLookup(joinDataCache, build.joinedData, L.join, build.mainHasJoinTable)
         last == build.i = Len(build.layers)
     IN /\ joinDataCache' = g.cache
        /\ build' =
             IF g.data = "threw"
             THEN [build EXCEPT !.pc = "threw", !.loadedExtraDbs = FALSE,
                     !.out = Append(@, [loader |-> build.loader, enriched |-> "threw"])]
             ELSE IF ~ok
             THEN [build EXCEPT !.pc = "threw", !.loadedExtraDbs = FALSE]
             ELSE [build EXCEPT
                     !.pc = IF last THEN "returned" ELSE "layer",
                     !.i = @ + 1,
                     !.loadedExtraDbs = IF last THEN FALSE ELSE @,
                     !.out = Append(@, [loader |-> build.loader,
                               enriched |-> IF g.data = "undefined" THEN "none" ELSE g.data])]
  /\ UNCHANGED <<plugin, dbVars, callerVars, queueVars, slot, engineVars, rd,
                 filterVars, engineUser, teardown, extraction, joinRun, call>>

InitBuild ==
  /\ plugin = "aequilibrae"
  /\ InitDb
  /\ InitCallers
  /\ InitQueue
  /\ slot = <<>>
  /\ InitEngine
  /\ InitReaders
  /\ InitFilter
  /\ joinDataCache = [k \in JoinKeys |-> "absent"]
  /\ engineUser = NoUsers
  /\ teardown = NoTeardown
  /\ extraction = NoExtraction
  /\ joinRun = NoJoin
  /\ call = NoCall
  /\ \E ls \in LayerLists, m \in BOOLEAN :
       build = [NoBuild EXCEPT !.pc = "layer", !.layers = ls, !.i = 1,
                               !.mainHasJoinTable = m]

NextBuild ==
  \/ BuildLayer
  \/ \E o \in LoaderOutcomes : LazyDbLoaderSettles(o)
  \/ \E ok \in BOOLEAN : ExtraJoinData(ok)
  \/ \E ok \in BOOLEAN : FetchLayer(ok)

SpecBuild == InitBuild /\ [][NextBuild]_vars

\* C11: a layer whose extra database could not be loaded (the lazy loader
\* returned null or threw) still yields its features, without enrichment, and
\* buildGeoFeatures goes on: the outcome recorded for such a layer is never a
\* throw and never an enrichment.
C11_JoinFailsSoft ==
  \A k \in 1..Len(build.out) :
    build.out[k].loader \in {"null", "throws"} => build.out[k].enriched = "none"

\* ------------------------------------------- SpecEngine: the shared engine
\* Callers of the engine handle: each calls initSql(), awaits the engine, and
\* calls releaseSql() when its component is torn down; a component that is
\* torn down before it asked for the engine calls releaseSql() all the same.
\* afterZero records that initSql was called while the engine existed and
\* splRefCount was 0.

InitSqlCall(u) ==
  /\ engineUser.pc[u] = "idle"
  /\ engineUser.inits < MaxInits
  /\ SetEngine(initSql(EngineState))
  /\ engineUser' = [engineUser EXCEPT !.pc[u] = "awaitSql", !.inits = @ + 1,
                      !.afterZero = @ \/ (sharedSpl /\ splRefCount = 0)]
  /\ UNCHANGED <<plugin, dbVars, callerVars, queueVars, slot, rd, filterVars, buildVars, teardown, extraction, joinRun, call>>

\* `await initSql()` continues with the engine, or throws.
InitSqlResumes(u) ==
  /\ engineUser.pc[u] = "awaitSql"
  /\ \/ /\ sharedSpl
        /\ engineUser' = [engineUser EXCEPT !.pc[u] = "using"]
     \/ /\ ~sharedSpl /\ splInitPromise = "rejected"
        /\ engineUser' = [engineUser EXCEPT !.pc[u] = "failed"]
  /\ UNCHANGED <<plugin, dbVars, callerVars, queueVars, slot, engineVars, rd, filterVars, buildVars, teardown, extraction, joinRun, call>>

ReleaseSqlCall(u) ==
  /\ engineUser.pc[u] \in {"idle", "using", "failed"}
  /\ SetEngine(releaseSql(EngineState))
  /\ engineUser' = [engineUser EXCEPT !.pc[u] = "idle"]
  /\ UNCHANGED <<plugin, dbVars, callerVars, queueVars, slot, rd, filterVars, buildVars, teardown, extraction, joinRun, call>>

InitEngineSpec ==
  /\ plugin \in Plugins
  /\ InitDb
  /\ InitCallers
  /\ InitQueue
  /\ slot = <<>>
  /\ InitEngine
  /\ InitReaders
  /\ InitFilter
  /\ InitAux

NextEngine ==
  \/ \E u \in Users : InitSqlCall(u)
  \/ SplResolves
  \/ SplRejects
  \/ \E u \in Users : InitSqlResumes(u)
  \/ \E u \in Users : ReleaseSqlCall(u)

SpecEngine == InitEngineSpec /\ [][NextEngine]_vars

\* C13: releaseSql never tears the engine down: once the shared engine
\* exists it stays, and no later step (an initSql after the reference count
\* dropped to zero included) invokes the factory again.
C13_EngineKept ==
  [][sharedSpl => (sharedSpl' /\ splCalls' = splCalls)]_vars

\* The engine exists, the count had dropped to zero, and a later initSql has
\* returned the engine to its caller without a second factory call.
C13_Witness ==
  /\ sharedSpl
  /\ engineUser.afterZero
  /\ splCalls = 1
  /\ \E u \in Users : engineUser.pc[u] = "using"

\* ------------------------------- SpecTeardown: close errors and force clear
\* The callers of Spec, with three more things that can happen: close() of a
\* connection throws, clearAllDbCaches() is called, and a caller that holds
\* nothing calls releaseDb(path).
TeardownCallers == 1..(NumCallers - 1)

\* cached.db.close() throws: the call was made, the connection is as it was.
closeConnThrows(cn, id) ==
  [cn EXCEPT ![id] = [@ EXCEPT !.closes = @ + 1, !.closeThrew = TRUE]]

\* releaseDb without the try/catch around close().
releaseDbCloseThrows_uncaught(s, p) ==
  LET cached == s.dbCache[p]
  IN IF cached.db = 0 THEN [st |-> s, threw |-> FALSE]
     ELSE IF cached.refCount - 1 <= 0
     THEN [st |-> [s EXCEPT !.conn = closeConnThrows(s.conn, cached.db),
                            !.dbCache[p].refCount = @ - 1],
           threw |-> TRUE]
     ELSE [st |-> [s EXCEPT !.dbCache[p].refCount = @ - 1], threw |-> FALSE]

\* releaseDb(path) when close() throws: the catch logs a warning and
\* dbCache.delete(path) follows.  threw tells whether releaseDb throws.
releaseDbCloseThrows(s, p) ==
  LET cached == s.dbCache[p]
  IN IF cached.db = 0 THEN [st |-> s, threw |-> FALSE]
     ELSE IF cached.refCount - 1 <= 0
     THEN [st |-> [s EXCEPT !.conn = closeConnThrows(s.conn, cached.db),
                            !.dbCache[p] = NoEntry],
           threw |-> FALSE]
     ELSE [st |-> [s EXCEPT !.dbCache[p].refCount = @ - 1], threw |-> FALSE]

\* releaseDb(path) with an entry-less path treated like a cached one.
releaseDbCall_noGuard(s, p, closeOk) ==
  IF s.dbCache[p].db = 0
  THEN [st |-> [s EXCEPT !.dbCache[p].refCount = @ - 1], threw |-> FALSE]
  ELSE IF closeOk THEN [st |-> releaseDb(s, p), threw |-> FALSE]
  ELSE releaseDbCloseThrows(s, p)

\* One call of releaseDb(path); closeOk tells whether close() would succeed.
releaseDbCall(s, p, closeOk) ==
  IF closeOk THEN [st |-> releaseDb(s, p), threw |-> FALSE]
  ELSE releaseDbCloseThrows(s, p)

\* clearAllDbCaches(): close() on every cached connection, errors caught
\* (T: the connections whose close() throws), then both maps are cleared.
clearAllDbCaches(s, T) ==
  LET cachedIds == {s.dbCache[p].db : p \in Paths} \ {0}
  IN [s EXCEPT
        !.conn = [i \in DOMAIN s.conn |->
                    IF i \notin cachedIds THEN s.conn[i]
                    ELSE IF i \in T THEN closeConnThrows(s.conn, i)[i]
                    ELSE closeConn(s.conn, i)[i]],
        !.dbCache = [p \in Paths |-> NoEntry],
        !.dbLoadPromises = [p \in Paths |-> 0]]

\* openDb(spl, arrayBuffer, path), at most MaxTeardownOpens times.
TeardownOpenDb(c, p) ==
  /\ openCalls < MaxTeardownOpens
  /\ OpenDb(c, p)

\* A caller that holds a connection releases it.
ReleaseHeld(c, closeOk) ==
  /\ caller[c].pc = "holding"
  /\ ~JoinPending
  /\ LET o == releaseDbCall(DbState, caller[c].path, closeOk)
     IN /\ SetDb(o.st)
        /\ caller' = [caller EXCEPT ![c] =
                        IF o.threw THEN [Idle EXCEPT !.pc = "crashed"] ELSE Idle]
  /\ released' = [released EXCEPT ![caller[c].path] = @ + 1]
  /\ UNCHANGED <<plugin, openCalls, opened, queueVars, slot, loadVars>>

\* A caller that holds nothing calls releaseDb(path).
ReleaseUnmatched(c, p, closeOk) ==
  /\ caller[c].pc = "idle"
  /\ ~JoinPending
  /\ teardown.strays < MaxStrays
  /\ teardown' = [teardown EXCEPT !.strays = @ + 1]
  /\ LET o == releaseDbCall(DbState, p, closeOk)
     IN /\ SetDb(o.st)
        /\ caller' = [caller EXCEPT ![c] =
                        IF o.threw THEN [Idle EXCEPT !.pc = "crashed"] ELSE Idle]
  /\ released' = [released EXCEPT ![p] = @ + 1]
  /\ UNCHANGED <<plugin, openCalls, opened, queueVars, slot, engineVars, rd,
                 filterVars, buildVars, engineUser, extraction, joinRun, call>>

ClearAllDbCaches ==
  /\ ~JoinPending
  /\ teardown.clears < MaxClears
  /\ teardown' = [teardown EXCEPT !.clears = @ + 1]
  /\ \E T \in SUBSET {dbCache[p].db : p \in Paths} :
       SetDb(clearAllDbCaches(DbState, T))
  /\ UNCHANGED <<plugin, callerVars, queueVars, slot, engineVars, rd,
                 filterVars, buildVars, engineUser, extraction, joinRun, call>>

InitTeardown ==
  /\ plugin \in Plugins
  /\ InitDb
  /\ InitCallers
  /\ InitQueue
  /\ slot = <<>>
  /\ InitEngine
  /\ InitReaders
  /\ InitFilter
  /\ InitAux

NextTeardown ==
  \/ \E c \in TeardownCallers, p \in Paths : TeardownOpenDb(c, p)
  \/ \E k \in 1..MaxTeardownOpens : ParseResolves(k)
  \/ \E k \in 1..MaxTeardownOpens : ParseRejects(k)
  \/ \E c \in TeardownCallers : JoinResume(c)
  \/ \E c \in TeardownCallers : LoadResume(c)
  \/ \E c \in TeardownCallers, ok \in BOOLEAN : ReleaseHeld(c, ok)
  \/ \E c \in TeardownCallers, p \in Paths, ok \in BOOLEAN : ReleaseUnmatched(c, p, ok)
  \/ ClearAllDbCaches

SpecTeardown == InitTeardown /\ [][NextTeardown]_vars

\* C14: a call of clearAllDbCaches calls close() on every connection that is
\* in the cache and leaves both maps empty; after it no connection that
\* existed before the call is open, except one whose close() threw.
C14_ClearClosesAll ==
  [][teardown'.clears # teardown.clears =>
       /\ \A p \in Paths :
            /\ dbCache'[p] = NoEntry
            /\ dbLoadPromises'[p] = 0
            /\ dbCache[p].db # 0 =>
                 conn'[dbCache[p].db].closes = conn[dbCache[p].db].closes + 1
       /\ \A i \in 1..Len(conn) : conn'[i].open => conn'[i].closeThrew]_vars

\* ------------------------------ SpecRelease: releaseDb with close errors
\* SpecTeardown without clearAllDbCaches: the cache changes through openDb
\* and releaseDb only.
NextRelease ==
  \/ \E c \in TeardownCallers, p \in Paths : TeardownOpenDb(c, p)
  \/ \E k \in 1..MaxTeardownOpens : ParseResolves(k)
  \/ \E k \in 1..MaxTeardownOpens : ParseRejects(k)
  \/ \E c \in TeardownCallers : JoinResume(c)
  \/ \E c \in TeardownCallers : LoadResume(c)
  \/ \E c \in TeardownCallers, ok \in BOOLEAN : ReleaseHeld(c, ok)
  \/ \E c \in TeardownCallers, p \in Paths, ok \in BOOLEAN : ReleaseUnmatched(c, p, ok)

SpecRelease == InitTeardown /\ [][NextRelease]_vars

\* C15: when close() throws as releaseDb brings a path's refCount to zero,
\* releaseDb returns normally and the entry is removed: no caller is left with
\* an exception of releaseDb, and a connection whose close() threw is in no
\* cache entry.
C15_CloseErrorSwallowed ==
  /\ \A c \in TeardownCallers : caller[c].pc # "crashed"
  /\ \A i \in 1..Len(conn) :
       conn[i].closeThrew => \A p \in Paths : dbCache[p].db # i

\* close() threw in a releaseDb call, and the caller has gone on to open the
\* path again.
C15_Witness ==
  \E i \in 1..Len(conn) :
    /\ conn[i].closeThrew
    /\ dbCache[conn[i].path].db \notin {0, i}

\* C16: a releaseDb call on a path that has no cache entry changes no cache
\* entry, closes nothing and throws nothing.
C16_UnmatchedReleaseNoOp ==
  [][\A p \in Paths :
       (released'[p] # released[p] /\ dbCache[p].db = 0) =>
          /\ UNCHANGED dbVars
          /\ \A c \in TeardownCallers : caller'[c].pc # "crashed"]_vars

\* releaseDb has been called on a path that never had an entry, and on a
\* path that had been released down to zero.
C16_Witness ==
  /\ teardown.strays > 0
  /\ \E p \in Paths : released[p] > opened[p] /\ dbCache[p].db = 0

\* C17: the gauge counts the slot requests whose completion has not been
\* signalled, and the budget follows it: with eight slots requested and no
\* completion signalled the budget computed from the gauge is the tightest
\* tier, and once all eight have signalled it is the full tier.
C17_BudgetFollowsGauge ==
  LET signalled == {t \in 1..Len(slot) : slot[t].signalled}
      budget == getMemoryLimits(getTotalMapsLoading(QueueState))
  IN /\ totalMapsLoading = Len(slot) - Cardinality(signalled)
     /\ (Len(slot) = 8 /\ signalled = {}) =>
          budget = [autoLimit |-> 25000, autoPrecision |-> 4]
     /\ (Len(slot) = 8 /\ signalled = 1..8) =>
          budget = [autoLimit |-> 100000, autoPrecision |-> 5]

\* Eight slots were requested and all eight completions have been signalled.
C17_Witness ==
  /\ Len(slot) = 8
  /\ \A t \in 1..8 : slot[t].signalled
  /\ getMemoryLimits(getTotalMapsLoading(QueueState)).autoLimit = 100000

\* ------------------------------ SpecBudget: the options of the extraction
\* One extractGeometries call of a reader.  Undefined is a key the YAML does
\* not have.
UserLimits == {Undefined, NaN, Num(-1, 1), Num(0, 1), Num(1, 2), Num(5, 2),
               Num(3, 1), Num(50000, 1)}
UserPrecisions == {Undefined, Num(0, 1), Num(3, 1), Num(20, 1)}
BudgetPlugins == {"sqlite-map", "aequilibrae", "polaris"}

\* a ?? b
Coalesce(a, b) == IF a = Undefined THEN b ELSE a

\* Number.isFinite(x) && x > 0 ? Math.floor(x) : 1000
safeLimit(x) ==
  IF x.k = "num" /\ x.n > 0 THEN Num(x.n \div x.d, 1) ELSE Num(1000, 1)

\* memoryOptions with the computed budget taken before the user's values.
memoryOptions_autoFirst(geometryLimit, coordinatePrecision, totalMaps) ==
  LET auto == getMemoryLimits(totalMaps)
  IN [limit |-> Num(auto.autoLimit, 1),
      coordinatePrecision |-> Num(auto.autoPrecision, 1)]

\* const memoryOptions = { limit: vizDetails.geometryLimit ?? autoLimit,
\*   coordinatePrecision: vizDetails.coordinatePrecision ?? autoPrecision }
memoryOptions(geometryLimit, coordinatePrecision, totalMaps) ==
  LET auto == getMemoryLimits(totalMaps)
  IN [limit |-> Coalesce(geometryLimit, Num(auto.autoLimit, 1)),
      coordinatePrecision |-> Coalesce(coordinatePrecision, Num(auto.autoPrecision, 1))]

\* fetchGeoJSONFeatures: the LIMIT of the feature query and the precision
\* given to the coordinate rounding.  The sqlite-map db.ts passes the limit
\* through safeLimit; the aequilibrae and polaris db.ts write it as it is.
usedOptions(plg, options) ==
  LET limit == Coalesce(options.limit, Num(IF plg = "polaris" THEN 100000 ELSE 1000000, 1))
      coordPrecision == Coalesce(options.coordinatePrecision, Num(5, 1))
  IN [limit |-> IF plg = "sqlite-map" THEN safeLimit(limit) ELSE limit,
      precision |-> coordPrecision]

ExtractGeometries ==
  /\ extraction.pc = "start"
  /\ LET o == usedOptions(plugin, memoryOptions(extraction.geometryLimit,
                             extraction.coordinatePrecision, extraction.totalMaps))
     IN extraction' = [extraction EXCEPT !.pc = "done", !.limit = o.limit,
                                         !.precision = o.precision]
  /\ UNCHANGED <<plugin, dbVars, callerVars, queueVars, slot, engineVars, rd,
                 filterVars, buildVars, engineUser, teardown, joinRun, call>>

InitBudget ==
  /\ plugin \in BudgetPlugins
  /\ InitDb
  /\ InitCallers
  /\ InitQueue
  /\ slot = <<>>
  /\ InitEngine
  /\ InitReaders
  /\ InitFilter
  /\ build = NoBuild
  /\ joinDataCache = [k \in JoinKeys |-> "absent"]
  /\ engineUser = NoUsers
  /\ teardown = NoTeardown
  /\ joinRun = NoJoin
  /\ call = NoCall
  /\ \E l \in UserLimits, c \in UserPrecisions, g \in 0..MaxTickets :
       extraction = [NoExtraction EXCEPT !.pc = "start", !.geometryLimit = l,
                                         !.coordinatePrecision = c, !.totalMaps = g]

NextBudget == ExtractGeometries

SpecBudget == InitBudget /\ [][NextBudget]_vars

IsPositiveInteger(x) == x.k = "num" /\ x.n > 0 /\ x.n % x.d = 0

KeyValues == {"null", "k1", "k2"}
MainRows == [key : KeyValues, geom : BOOLEAN]
JoinTypes == {"left", "inner", "undefined"}
JoinPaths == {"performJoin", "fetchGeoJSONFeatures"}
RowLists(S) == UNION {[1..n -> S] : n \in 0..MaxRows}

\* new Map(rows.map(row => [row[rightKey], row])).get(key): the last row that
\* has the key, 0 for undefined.
mapGet(sec, key) ==
  LET hits == {s \in 1..Len(sec) : sec[s] = key}
  IN IF hits = {} THEN 0 ELSE CHOOSE s \in hits : \A u \in hits : u <= s

\* performJoin's joinLookup: rows whose key is null or undefined are not set.
joinLookupGet(sec, key) ==
  IF key = "null" THEN 0 ELSE mapGet(sec, key)

\* The rows a sequence keeps of the candidates (0: a row that is dropped).
RECURSIVE Compact(_)
Compact(rows) ==
  IF rows = <<>> THEN <<>>
  ELSE IF Head(rows).src = 0 THEN Compact(Tail(rows))
  ELSE <<Head(rows)>> \o Compact(Tail(rows))

Dropped == [src |-> 0, joined |-> 0]

\* performJoin(mainData, joinData, joinConfig)
performJoin(main, sec, type) ==
  Compact([m \in 1..Len(main) |->
    LET joinRow == joinLookupGet(sec, main[m].key)
    IN IF joinRow = 0 /\ type # "left" THEN Dropped
       ELSE [src |-> m, joined |-> joinRow]])

\* The row loop of fetchGeoJSONFeatures with cachedJoinedData and joinConfig:
\* a row without geometry is skipped, the join row is looked up in the map of
\* getCachedJoinData, an inner join skips a row that has none.
fetchJoin(main, sec, type) ==
  LET joinType == IF type = "undefined" THEN "left" ELSE type
  IN Compact([m \in 1..Len(main) |->
       LET joinRow == mapGet(sec, main[m].key)
       IN IF ~main[m].geom THEN Dropped
          ELSE IF joinRow = 0 /\ joinType = "inner" THEN Dropped
          ELSE [src |-> m, joined |-> joinRow]])

PerformJoin ==
  /\ joinRun.pc = "start"
  /\ joinRun.path = "performJoin"
  /\ joinRun' = [joinRun EXCEPT !.pc = "done",
                   !.out = performJoin(joinRun.main, joinRun.sec, joinRun.type)]
  /\ UNCHANGED <<plugin, dbVars, callerVars, queueVars, slot, engineVars, rd,
                 filterVars, buildVars, engineUser, teardown, extraction, call>>

FetchJoin ==
  /\ joinRun.pc = "start"
  /\ joinRun.path = "fetchGeoJSONFeatures"
  /\ joinRun' = [joinRun EXCEPT !.pc = "done",
                   !.out = fetchJoin(joinRun.main, joinRun.sec, joinRun.type)]
  /\ UNCHANGED <<plugin, dbVars, callerVars, queueVars, slot, engineVars, rd,
                 filterVars, buildVars, engineUser, teardown, extraction, call>>

InitJoin ==
  /\ plugin = "sqlite-map"
  /\ InitDb
  /\ InitCallers
  /\ InitQueue
  /\ slot = <<>>
  /\ InitEngine
  /\ InitReaders
  /\ InitFilter
  /\ build = NoBuild
  /\ joinDataCache = [k \in JoinKeys |-> "absent"]
  /\ engineUser = NoUsers
  /\ teardown = NoTeardown
  /\ extraction = NoExtraction
  /\ call = NoCall
  /\ \E path \in JoinPaths, type \in JoinTypes,
        main \in RowLists(MainRows), sec \in RowLists(KeyValues) :
       joinRun = [NoJoin EXCEPT !.pc = "start", !.path = path, !.type = type,
                                !.main = main, !.sec = sec]

NextJoin ==
  \/ PerformJoin
  \/ FetchJoin

SpecJoin == InitJoin /\ [][NextJoin]_vars

\* Main row m and sec row s have the same key value (NULL equals nothing).
KeyMatch(m, s) ==
  joinRun.main[m].key # "null" /\ joinRun.sec[s] = joinRun.main[m].key

\* The main rows a feature can be made of: performJoin takes every row, the
\* extraction those whose geometry parses.
Eligible ==
  {m \in 1..Len(joinRun.main) :
     joinRun.path = "performJoin" \/ joinRun.main[m].geom}

OutOf(m) == {k \in 1..Len(joinRun.out) : joinRun.out[k].src = m}

\* C19: in a left join every primary row is in the output exactly once, with
\* the columns of a secondary row of the same key value if there is one, and
\* without any secondary columns otherwise.
C19_LeftJoinKeepsAll ==
  (joinRun.pc = "done" /\ joinRun.type = "left") =>
    \A m \in Eligible :
      /\ Cardinality(OutOf(m)) = 1
      /\ \A k \in OutOf(m) :
           IF \E s \in 1..Len(joinRun.sec) : KeyMatch(m, s)
           THEN joinRun.out[k].joined # 0 /\ KeyMatch(m, joinRun.out[k].joined)
           ELSE joinRun.out[k].joined = 0

\* C20: in an inner join a primary row is in the output only if a secondary
\* row has the same key value; rows without a match, those whose key is null
\* included, are absent.
C20_InnerJoinDropsUnmatched ==
  (joinRun.pc = "done" /\ joinRun.type = "inner") =>
    \A k \in 1..Len(joinRun.out) :
      \E s \in 1..Len(joinRun.sec) : KeyMatch(joinRun.out[k].src, s)

\* --------------------------------- SpecJoinKey: the key of joinDataCache
\* Two calls of getCachedJoinData, one after the other, each with its own
\* join configuration and neededColumn ("": undefined).  plugin tells which
\* revision of the function runs: "sqlite-map" is sqlite-map/db.ts,
\* "sqlite-map.1" the revision that builds the key with createJoinCacheKey.
\* served[i] is the call whose query filled the lookup that call i returned
\* (0: the call threw).
JoinKeyPlugins == {"sqlite-map", "sqlite-map.1"}
JoinConfigs ==
  [database : {"results", "demand"}, table : {"links", "nodes"},
   rightKey : {"id", "link"}, filter : {"", "type = 1"}]
NeededColumns == {"", "volume"}

\* a || b for strings
OrElse(a, b) == IF a = "" THEN b ELSE a

\* createJoinCacheKey(database, table, column, filter)
createJoinCacheKey(database, table, column, filter) ==
  database \o "::" \o table \o "::" \o OrElse(column, "*") \o "::" \o OrElse(filter, "")

\* The cacheKey of getCachedJoinData.
cacheKey(plg, joinConfig, neededColumn) ==
  IF plg = "sqlite-map"
  THEN joinConfig.table \o "::" \o joinConfig.rightKey \o "::"
         \o OrElse(neededColumn, "*") \o "::" \o OrElse(joinConfig.filter, "")
  ELSE createJoinCacheKey(joinConfig.database, joinConfig.table, neededColumn,
                          joinConfig.filter)

\* getCachedJoinData(db, joinConfig, neededColumn), call number call.pc; ok
\* tells whether the query of the join table succeeds.
GetCachedJoinData(ok) ==
  /\ call.pc \in {1, 2}
  /\ LET i == call.pc
         key == cacheKey(plugin, call.joins[i], call.needed[i])
         next == IF i = 1 THEN 2 ELSE 3
     IN IF key \in DOMAIN joinDataCache
        THEN /\ call' = [call EXCEPT !.pc = next, !.served[i] = joinDataCache[key]]
             /\ UNCHANGED joinDataCache
        ELSE IF ok
        THEN /\ call' = [call EXCEPT !.pc = next, !.served[i] = i]
             /\ joinDataCache' =
                  [k \in DOMAIN joinDataCache \cup {key} |->
                     IF k = key THEN i ELSE joinDataCache[k]]
        ELSE /\ call' = [call EXCEPT !.pc = next]
             /\ UNCHANGED joinDataCache
  /\ UNCHANGED <<plugin, dbVars, callerVars, queueVars, slot, engineVars, rd,
                 filterVars, build, engineUser, teardown, extraction, joinRun>>

InitJoinKey ==
  /\ plugin \in JoinKeyPlugins
  /\ InitDb
  /\ InitCallers
  /\ InitQueue
  /\ slot = <<>>
  /\ InitEngine
  /\ InitReaders
  /\ InitFilter
  /\ build = NoBuild
  /\ joinDataCache = <<>>
  /\ engineUser = NoUsers
  /\ teardown = NoTeardown
  /\ extraction = NoExtraction
  /\ joinRun = NoJoin
  /\ \E j1 \in JoinConfigs, j2 \in JoinConfigs, c1 \in NeededColumns, c2 \in NeededColumns :
       call = [pc |-> 1, joins |-> <<j1, j2>>, needed |-> <<c1, c2>>,
               served |-> <<0, 0>>]

NextJoinKey == \E ok \in BOOLEAN : GetCachedJoinData(ok)

SpecJoinKey == InitJoinKey /\ [][NextJoinKey]_vars

\* C21: two joins that differ in the secondary database, the table, the
\* needed column (or wildcard) or the filter clause (or empty) never share a
\* cached lookup: the second call is served the lookup of the first only if
\* all four parts are the same.
C21_JoinKeyFourParts ==
  (call.pc = 3 /\ call.served[2] = 1) =>
    /\ call.joins[1].database = call.joins[2].database
    /\ call.joins[1].table = call.joins[2].table
    /\ call.needed[1] = call.needed[2]
    /\ call.joins[1].filter = call.joins[2].filter

\* ---------------------------------------------------------------------------
\* Configuration without a database path (SpecLoad)
\* ---------------------------------------------------------------------------

\* C22: a load whose configuration lacks the database path fails before any
\* I/O begins: when the error is raised the load has not obtained the SQL
\* engine and has neither fetched nor opened a database file.
C22_NoPathFailsBeforeIO ==
  \A r \in Readers :
    (rd[r].failure = "noDbPath" /\ rd[r].life = "mounted")
      => (~rd[r].spl /\ rd[r].db = 0 /\ \A p \in Paths : rd[r].held[p] = 0)

\* ---------------------------------------------------------------------------
\* Style encoding (sqlite-map/styling.ts): buildStyleArrays as a function
\* ---------------------------------------------------------------------------

\* JavaScript numbers: the rationals Num(n, d) in lowest terms with d > 0,
\* NaN and the two infinities.  Arithmetic on Num is exact (the rounding of
\* binary floating point is not modelled); the special values follow IEEE 754.
PosInf == [k |-> "inf", n |-> 1, d |-> 1]
NegInf == [k |-> "inf", n |-> -1, d |-> 1]
Null == [k |-> "null", n |-> 0, d |-> 1]

Abs(i) == IF i < 0 THEN -i ELSE i

RECURSIVE Gcd(_, _)
Gcd(a, b) == IF b = 0 THEN a ELSE Gcd(b, a % b)

Frac(n, d) ==
  LET s == IF d < 0 THEN -1 ELSE 1
      g == Gcd(Abs(n), Abs(d))
  IN Num((s * n) \div g, (s * d) \div g)

Sgn(x) == IF x.n > 0 THEN 1 ELSE IF x.n < 0 THEN -1 ELSE 0

\* a + b
NumAdd(a, b) ==
  IF a.k = "NaN" \/ b.k = "NaN" THEN NaN
  ELSE IF a.k = "inf" /\ b.k = "inf" THEN (IF a.n = b.n THEN a ELSE NaN)
  ELSE IF a.k = "inf" THEN a
  ELSE IF b.k = "inf" THEN b
  ELSE Frac(a.n * b.d + b.n * a.d, a.d * b.d)

NumNeg(a) == IF a.k = "NaN" THEN NaN ELSE [a EXCEPT !.n = -a.n]

\* a - b
NumSub(a, b) == NumAdd(a, NumNeg(b))

\* a * b
NumMul(a, b) ==
  IF a.k = "NaN" \/ b.k = "NaN" THEN NaN
  ELSE IF a.k = "inf" \/ b.k = "inf"
       THEN (IF Sgn(a) * Sgn(b) = 0 THEN NaN
             ELSE IF Sgn(a) * Sgn(b) > 0 THEN PosInf ELSE NegInf)
  ELSE Frac(a.n * b.n, a.d * b.d)

\* a / b
NumDiv(a, b) ==
  IF a.k = "NaN" \/ b.k = "NaN" THEN NaN
  ELSE IF a.k = "inf" /\ b.k = "inf" THEN NaN
  ELSE IF b.k = "inf" THEN Num(0, 1)
  ELSE IF b.n = 0
       THEN (IF Sgn(a) = 0 THEN NaN ELSE IF Sgn(a) > 0 THEN PosInf ELSE NegInf)
  ELSE IF a.k = "inf" THEN (IF Sgn(a) * Sgn(b) > 0 THEN PosInf ELSE NegInf)
  ELSE Frac(a.n * b.d, a.d * b.n)

\* a < b, for a and b other than NaN
NumLess(a, b) ==
  IF a.k = "inf" THEN a.n < 0 /\ b # NegInf
  ELSE IF b.k = "inf" THEN b.n > 0
  ELSE a.n * b.d < b.n * a.d

MathMin(a, b) ==
  IF a.k = "NaN" \/ b.k = "NaN" THEN NaN ELSE IF NumLess(b, a) THEN b ELSE a

MathMax(a, b) ==
  IF a.k = "NaN" \/ b.k = "NaN" THEN NaN ELSE IF NumLess(a, b) THEN b ELSE a

\* Math.round: the nearest integer, halves upwards
MathRound(a) ==
  IF a.k = "num" THEN Num((2 * a.n + a.d) \div (2 * a.d), 1) ELSE a

\* toNumber: Number(value), null if that is NaN.  Number(null) is 0,
\* Number(undefined) is NaN.
toNumber(value) ==
  IF value.k = "null" THEN Num(0, 1)
  ELSE IF value.k \in {"undefined", "NaN"} THEN Null
  ELSE value

\* A store into a Float32Array: undefined is stored as NaN.
ToFloat32(x) == IF x.k \in {"undefined", "null"} THEN (IF x.k = "null" THEN Num(0, 1) ELSE NaN) ELSE x

\* A store into a Uint8ClampedArray: NaN and undefined are stored as 0, other
\* numbers are clamped to 0..255 and rounded.
ToUint8Clamped(x) ==
  IF x.k \in {"undefined", "NaN", "null"} THEN 0
  ELSE IF x.k = "inf" THEN (IF x.n > 0 THEN 255 ELSE 0)
  ELSE LET r == MathRound(x).n IN IF r < 0 THEN 0 ELSE IF r > 255 THEN 255 ELSE r

\* Strings that are parsed character by character are sequences of
\* one-character strings: "#ff0000" is <<"#","f","f","0","0","0","0">>.
HexChars == <<"0", "1", "2", "3", "4", "5", "6", "7", "8", "9",
              "a", "b", "c", "d", "e", "f">>

IsHex(c) == \E i \in 1..16 : HexChars[i] = c

HexValue(c) == (CHOOSE i \in 1..16 : HexChars[i] = c) - 1

\* parseInt(chunk, 16) of a chunk of one or two characters, or of undefined:
\* the leading hexadecimal digits, NaN if there are none.
parseInt16(chunk) ==
  IF chunk = <<>> \/ ~IsHex(chunk[1]) THEN NaN
  ELSE IF Len(chunk) = 2 /\ IsHex(chunk[2])
       THEN Num(16 * HexValue(chunk[1]) + HexValue(chunk[2]), 1)
  ELSE Num(HexValue(chunk[1]), 1)

\* hex.replace('#', ''): the first '#' is removed.
StripHash(hex) ==
  IF \E i \in 1..Len(hex) : hex[i] = "#"
  THEN LET i == CHOOSE j \in 1..Len(hex) :
                  hex[j] = "#" /\ \A m \in 1..(j - 1) : hex[m] # "#"
       IN SubSeq(hex, 1, i - 1) \o SubSeq(hex, i + 1, Len(hex))
  ELSE hex

\* bytes[i - 1] of `stripped.match(/.{1,2}/g) || ['80', '80', '80']`; the
\* empty sequence stands for undefined.
HexChunk(stripped, i) ==
  IF stripped = <<>> THEN <<"8", "0">>
  ELSE IF 2 * i - 1 > Len(stripped) THEN <<>>
  ELSE SubSeq(stripped, 2 * i - 1, IF 2 * i > Len(stripped) THEN Len(stripped) ELSE 2 * i)

hexToRgbA(hex, alpha) ==
  LET stripped == StripHash(hex)
  IN <<parseInt16(HexChunk(stripped, 1)), parseInt16(HexChunk(stripped, 2)),
       parseInt16(HexChunk(stripped, 3)), MathRound(NumMul(alpha, Num(255, 1)))>>

\* A variant that returns the green, blue and alpha entries.
hexToRgb_shifted(hex) == SubSeq(hexToRgbA(hex, Num(1, 1)), 2, 4)

hexToRgb(hex) == SubSeq(hexToRgbA(hex, Num(1, 1)), 1, 3)

hexToRgba(hex, alpha) == hexToRgbA(hex, alpha)

Gray == <<"#", "8", "0", "8", "0", "8", "0">>

\* The palette table of the cartocolor package, which is not part of the
\* sources: a palette has one colour list per size, and the lists here are
\* stand-ins whose red byte is the size and whose green byte is the step.
PaletteNames == {"YlGn", "Viridis"}
PaletteSizes == {3, 4, 5, 6, 7, 8, 9}

cartoColors(name, size) ==
  [i \in 1..size |-> <<"#", "0", HexChars[size + 1], "0", HexChars[i + 1], "0", "0">>]

Fill(n, x) == [i \in 1..n |-> x]

\* getPaletteColors(name, numColors), numColors a whole number >= 0
getPaletteColors(name, numColors) ==
  LET palette == IF name = "" THEN "YlGn" ELSE name
  IN IF palette \notin PaletteNames THEN Fill(numColors, Gray)
     ELSE LET fits == {s \in PaletteSizes : s >= numColors}
              size == IF fits # {}
                      THEN CHOOSE s \in fits : \A t \in fits : s <= t
                      ELSE CHOOSE s \in PaletteSizes : \A t \in PaletteSizes : t <= s
          IN cartoColors(palette, size)

\* safeMin / safeMax of a sequence of numbers
safeMin(arr) ==
  IF arr = <<>> THEN Num(0, 1)
  ELSE CHOOSE m \in {arr[i] : i \in 1..Len(arr)} :
         \A i \in 1..Len(arr) : ~NumLess(arr[i], m)

safeMax(arr) ==
  IF arr = <<>> THEN Num(1, 1)
  ELSE CHOOSE m \in {arr[i] : i \in 1..Len(arr)} :
         \A i \in 1..Len(arr) : ~NumLess(m, arr[i])

RECURSIVE FilterNumbers(_)
FilterNumbers(s) ==
  IF s = <<>> THEN <<>>
  ELSE (IF Head(s).k = "null" THEN <<>> ELSE <<Head(s)>>) \o FilterNumbers(Tail(s))

MapSeq(Op(_), s) == [i \in 1..Len(s) |-> Op(s[i])]

\* style.numColors || 7
DefaultNumColors == 7

\* buildColorEncoder(values, style, dataRange): the record of what the
\* returned closure captures.  style is an object with a `column` key.
buildColorEncoder(values, style) ==
  LET clampTo(v) ==
        LET num == toNumber(v)
        IN IF num.k = "null" THEN Null
           ELSE MathMax(style.dataRange[1], MathMin(style.dataRange[2], num))
      vals == IF "dataRange" \in DOMAIN style THEN MapSeq(clampTo, values) ELSE values
      nums == FilterNumbers(MapSeq(toNumber, vals))
      range == IF "range" \in DOMAIN style THEN style.range
               ELSE <<safeMin(nums), safeMax(nums)>>
      paletteName == IF "palette" \in DOMAIN style THEN style.palette ELSE "YlGn"
      numColors == IF "numColors" \in DOMAIN style THEN style.numColors ELSE DefaultNumColors
      hexToRgba1(h) == hexToRgba(h, Num(1, 1))
  IN [min |-> range[1], max |-> range[2], numColors |-> numColors,
      colors |-> MapSeq(hexToRgba1, getPaletteColors(paletteName, numColors)),
      scale |-> IF range[2] = range[1] THEN Num(0, 1)
                ELSE NumDiv(Num(numColors - 1, 1), NumSub(range[2], range[1]))]

\* The closure returned by buildColorEncoder, applied to value: an RGBA
\* sequence, or Undefined when the index is NaN or beyond the colour list.
colorEncoder(enc, value) ==
  LET t == toNumber(value)
      num == IF t.k = "null" THEN enc.min ELSE t
      idx == MathRound(NumMul(NumSub(num, enc.min), enc.scale))
      at == MathMax(Num(0, 1), MathMin(Num(enc.numColors - 1, 1), idx))
  IN IF at.k = "num" /\ at.n + 1 \in 1..Len(enc.colors) THEN enc.colors[at.n + 1]
     ELSE Undefined

\* buildCategoryEncoder(colors, '#808080') applied to value; colors is a
\* function from category keys to hex strings.
categoryEncoder(colors, value) ==
  IF value \in DOMAIN colors THEN hexToRgbA(colors[value], Num(1, 1))
  ELSE hexToRgbA(Gray, Num(1, 1))

\* JavaScript values of a style specification are records with a type tag t:
\* strings [t, s], numbers [t, x], booleans [t, b], arrays [t, items] and
\* objects, whose other fields are their keys (`key in obj` is
\* key \in DOMAIN obj).
JsString(s) == [t |-> "string", s |-> s]
JsNumber(x) == [t |-> "number", x |-> x]
JsBoolean(b) == [t |-> "boolean", b |-> b]
JsArray(items) == [t |-> "array", items |-> items]

\* if (value): false for '', 0, NaN and false
Truthy(v) ==
  CASE v.t = "string" -> v.s # <<>>
    [] v.t = "number" -> ~(v.x.k = "NaN" \/ (v.x.k = "num" /\ v.x.n = 0))
    [] v.t = "boolean" -> v.b
    [] OTHER -> TRUE

\* `key in v` throws a TypeError unless v is an object (or an array).
InThrows(v) == v.t \in {"string", "number", "boolean"}

\* The typed arrays are sequences: slot i of the code is element i + 1.  A
\* Uint8ClampedArray ("u8") holds integers, a Float32Array ("f32") numbers.
\* A store outside the array is ignored.
Store(kind, x) == IF kind = "u8" THEN ToUint8Clamped(x) ELSE ToFloat32(x)

SetSlot(kind, target, slot0, x) ==
  IF slot0 + 1 \in 1..Len(target) THEN [target EXCEPT ![slot0 + 1] = Store(kind, x)]
  ELSE target

\* What an encoder returns: an array of numbers or one value.
IsArray(value) == "items" \in DOMAIN value
ArrayOf(items) == [items |-> items]
Scalar(x) == [x |-> x]

RECURSIVE WriteItems(_, _, _, _)
WriteItems(kind, target, start, items) ==
  IF items = <<>> THEN target
  ELSE WriteItems(kind, SetSlot(kind, target, start, Head(items)), start + 1, Tail(items))

\* writeValue(target, baseIndex, stride, offset, value)
writeValue(kind, target, baseIndex, stride, offset, value) ==
  IF IsArray(value) THEN WriteItems(kind, target, baseIndex + stride * 0 + offset, value.items)
  ELSE SetSlot(kind, target, baseIndex + offset, value.x)

\* applyStaticValue(indices, value, target, stride, offset)
RECURSIVE applyStaticValue(_, _, _, _, _, _)
applyStaticValue(kind, indices, value, target, stride, offset) ==
  IF indices = <<>> THEN target
  ELSE applyStaticValue(kind, Tail(indices), value,
                        writeValue(kind, target, Head(indices) * stride, 1, offset, value),
                        stride, offset)

\* properties[j]?.[column]
Prop(props, column) == IF column \in DOMAIN props THEN props[column] ELSE Undefined

\* applyEncodedValue(indices, properties, column, encoder, target, stride,
\* offset); encoded is the sequence of encoder(properties[j]?.[column]).
RECURSIVE applyEncodedValue(_, _, _, _, _, _)
applyEncodedValue(kind, indices, encoded, target, stride, offset) ==
  IF indices = <<>> THEN target
  ELSE applyEncodedValue(kind, Tail(indices), Tail(encoded),
                         writeValue(kind, target, Head(indices) * stride, 1, offset, Head(encoded)),
                         stride, offset)

\* A variant that leaves out the `+ outMin`.
quantitativeValue_noOffset(num, dataRange, outputRange) ==
  LET scale == IF dataRange[2] = dataRange[1] THEN Num(0, 1)
               ELSE NumDiv(Num(1, 1), NumSub(dataRange[2], dataRange[1]))
      normalized == IF num.k = "null" THEN Num(0, 1)
                    ELSE NumMul(NumSub(num, dataRange[1]), scale)
  IN MathMax(outputRange[1],
             MathMin(outputRange[2], NumMul(normalized, NumSub(outputRange[2], outputRange[1]))))

\* The value applyQuantitativeMapping computes for num (a number or null).
quantitativeValue(num, dataRange, outputRange) ==
  LET dataMin == dataRange[1]
      dataMax == dataRange[2]
      outMin == outputRange[1]
      outMax == outputRange[2]
      scale == IF dataMax = dataMin THEN Num(0, 1)
               ELSE NumDiv(Num(1, 1), NumSub(dataMax, dataMin))
      normalized == IF num.k = "null" THEN Num(0, 1)
                    ELSE NumMul(NumSub(num, dataMin), scale)
  IN MathMax(outMin, MathMin(outMax, NumAdd(NumMul(normalized, NumSub(outMax, outMin)), outMin)))

\* applyQuantitativeMapping(values, dataRange, outputRange, target, stride,
\* offset): the value of position i goes to slot i * stride + offset.
RECURSIVE applyQuantitativeMappingFrom(_, _, _, _, _, _, _)
applyQuantitativeMappingFrom(i, values, dataRange, outputRange, target, stride, offset) ==
  IF i >= Len(values) THEN target
  ELSE applyQuantitativeMappingFrom(i + 1, values, dataRange, outputRange,
         SetSlot("f32", target, i * stride + offset,
                 quantitativeValue(values[i + 1], dataRange, outputRange)),
         stride, offset)

applyQuantitativeMapping(values, dataRange, outputRange, target, stride, offset) ==
  applyQuantitativeMappingFrom(0, values, dataRange, outputRange, target, stride, offset)

\* writeNumeric(target, indices, getValue, defaultValue); got is the sequence
\* of getValue(j), Undefined where there is none.
RECURSIVE writeNumeric(_, _, _, _)
writeNumeric(target, indices, got, defaultValue) ==
  IF indices = <<>> THEN target
  ELSE writeNumeric(SetSlot("f32", target, Head(indices),
                            IF got = <<>> \/ Head(got) \in {Undefined, Null} THEN defaultValue
                            ELSE Head(got)),
                    Tail(indices), IF got = <<>> THEN <<>> ELSE Tail(got), defaultValue)

\* applyNumericArray(indices, values, target, defaultValue)
applyNumericArray(indices, values, target, defaultValue) ==
  writeNumeric(target, indices, values, defaultValue)

\* applyNumericCategory(indices, properties, column, mapping, target, defaultValue)
applyNumericCategory(indices, properties, column, mapping, target, defaultValue) ==
  LET get(p) == IF Prop(p, column) \in DOMAIN mapping THEN mapping[Prop(p, column)]
                ELSE Undefined
  IN writeNumeric(target, indices, MapSeq(get, properties), defaultValue)

\* applyStaticNumeric(indices, value, target)
applyStaticNumeric(indices, value, target) ==
  applyStaticValue("f32", indices, Scalar(value), target, 1, 0)

\* applyFeatureFilter(indices, properties, column, include, exclude, target);
\* include and exclude are sets of values, empty when absent or [].
RECURSIVE applyFeatureFilter(_, _, _, _, _, _)
applyFeatureFilter(indices, properties, column, include, exclude, target) ==
  IF indices = <<>> THEN target
  ELSE LET v == Prop(Head(properties), column)
           visible == (include # {} => v \in include) /\ (exclude # {} => v \notin exclude)
       IN applyFeatureFilter(Tail(indices), Tail(properties), column, include, exclude,
            SetSlot("f32", target, Head(indices), IF visible THEN Num(1, 1) ELSE Num(0, 1)))

\* obj.key, or dflt when the object has no such key
Get(obj, key, dflt) == IF key \in DOMAIN obj THEN obj[key] ELSE dflt

\* props._layer || 'GLOBAL'
layerNameOf(props) == IF Get(props, "_layer", "") = "" THEN "GLOBAL" ELSE props["_layer"]

\* The keys of the buckets map in insertion order: the layer names of the
\* features by first appearance.
RECURSIVE bucketNames(_, _)
bucketNames(features, seen) ==
  IF features = <<>> THEN seen
  ELSE bucketNames(Tail(features),
                   IF \E i \in 1..Len(seen) : seen[i] = layerNameOf(Head(features))
                   THEN seen ELSE Append(seen, layerNameOf(Head(features))))

\* bucket.idxs of a layer: the feature indices (from 0) in ascending order.
RECURSIVE bucketIdxs(_, _, _)
bucketIdxs(features, name, i) ==
  IF i >= Len(features) THEN <<>>
  ELSE (IF layerNameOf(features[i + 1]) = name THEN <<i>> ELSE <<>>)
       \o bucketIdxs(features, name, i + 1)

\* The outcome of a call that threw.
Threw == [threw |-> TRUE]

DefaultFillColor == <<"#", "5", "9", "a", "1", "4", "f">>
DefaultLineColor == <<"#", "4", "e", "7", "9", "a", "7">>
DefaultLineWidth == Num(2, 1)
DefaultPointRadius == Num(4, 1)
DefaultFillHeight == Num(0, 1)

\* applyColorStyle(idxs, propsArr, styleVal, target, stride, offset, '#808080')
\* for the channel `key` of style: [threw, target].
applyColorStyle(idxs, propsArr, style, key, target, stride, offset) ==
  IF key \notin DOMAIN style \/ ~Truthy(style[key]) THEN [threw |-> FALSE, target |-> target]
  ELSE LET styleVal == style[key]
           column == Get(styleVal, "column", "")
           columnOf(p) == Prop(p, column)
       IN IF styleVal.t = "string"
          THEN [threw |-> FALSE,
                target |-> applyStaticValue("u8", idxs,
                             ArrayOf(IF stride = 3 THEN hexToRgb(styleVal.s)
                                     ELSE hexToRgba(styleVal.s, Num(1, 1))),
                             target, stride, offset)]
          ELSE IF InThrows(styleVal) THEN [threw |-> TRUE, target |-> target]
          ELSE IF "colors" \in DOMAIN styleVal
          THEN LET encode(p) == ArrayOf(categoryEncoder(styleVal.colors, columnOf(p)))
               IN [threw |-> FALSE,
                   target |-> applyEncodedValue("u8", idxs, MapSeq(encode, propsArr),
                                                target, stride, offset)]
          ELSE IF "column" \in DOMAIN styleVal
          THEN LET enc == buildColorEncoder(MapSeq(columnOf, propsArr), styleVal)
                   encode(p) == LET c == colorEncoder(enc, columnOf(p))
                                IN IF c = Undefined THEN Scalar(Undefined) ELSE ArrayOf(c)
               IN [threw |-> FALSE,
                   target |-> applyEncodedValue("u8", idxs, MapSeq(encode, propsArr),
                                                target, stride, offset)]
          ELSE [threw |-> FALSE, target |-> target]

\* The numeric channel `key` (lineWidth, pointRadius or fillHeight) of style:
\* [threw, target].  Only lineWidth takes an array or a `widths` dictionary.
applyNumericStyle(idxs, propsArr, style, key, target, defaultValue, defaultRange) ==
  IF key \notin DOMAIN style \/ ~Truthy(style[key]) THEN [threw |-> FALSE, target |-> target]
  ELSE LET sv == style[key]
           column == Get(sv, "column", "")
           numberOf(p) == toNumber(Prop(p, column))
       IN IF key = "lineWidth" /\ sv.t = "array"
          THEN [threw |-> FALSE,
                target |-> applyNumericArray(idxs, sv.items, target, defaultValue)]
          ELSE IF sv.t = "number"
          THEN [threw |-> FALSE, target |-> applyStaticNumeric(idxs, sv.x, target)]
          ELSE IF key = "lineWidth" /\ sv.t = "object"
                  /\ "widths" \in DOMAIN sv /\ "column" \in DOMAIN sv
          THEN [threw |-> FALSE,
                target |-> applyNumericCategory(idxs, propsArr, sv.column, sv.widths,
                                                target, defaultValue)]
          ELSE IF InThrows(sv) THEN [threw |-> TRUE, target |-> target]
          ELSE IF "column" \in DOMAIN sv
          THEN [threw |-> FALSE,
                target |-> applyQuantitativeMapping(MapSeq(numberOf, propsArr),
                             Get(sv, "dataRange", defaultRange),
                             Get(sv, "widthRange", defaultRange), target, 1, 0)]
          ELSE [threw |-> FALSE, target |-> target]

\* The filter channel of style: [threw, target].
applyFilterStyle(idxs, propsArr, style, target) ==
  IF "filter" \notin DOMAIN style \/ ~Truthy(style.filter) THEN [threw |-> FALSE, target |-> target]
  ELSE IF InThrows(style.filter) THEN [threw |-> TRUE, target |-> target]
  ELSE IF "column" \in DOMAIN style.filter
  THEN [threw |-> FALSE,
        target |-> applyFeatureFilter(idxs, propsArr, style.filter.column,
                     Get(style.filter, "include", {}), Get(style.filter, "exclude", {}),
                     target)]
  ELSE [threw |-> FALSE, target |-> target]

\* One turn of the per-layer loop of buildStyleArrays for the bucket `name`.
applyLayerStyle(out, features, layers, name) ==
  LET idxs == bucketIdxs(features, name, 0)
      pick(i) == features[i + 1]
      propsArr == MapSeq(pick, idxs)
      hasStyle == name \in DOMAIN layers /\ "style" \in DOMAIN layers[name]
      style == layers[name].style
      f == applyFilterStyle(idxs, propsArr, style, out.featureFilter)
      fc == applyColorStyle(idxs, propsArr, style, "fillColor", out.fillColors, 4, 0)
      lc == applyColorStyle(idxs, propsArr, style, "lineColor", out.lineColors, 3, 0)
      lw == applyNumericStyle(idxs, propsArr, style, "lineWidth", out.lineWidths,
                              DefaultLineWidth, <<Num(1, 1), Num(6, 1)>>)
      pr == applyNumericStyle(idxs, propsArr, style, "pointRadius", out.pointRadii,
                              DefaultPointRadius, <<Num(2, 1), Num(12, 1)>>)
      fh == applyNumericStyle(idxs, propsArr, style, "fillHeight", out.fillHeights,
                              DefaultFillHeight, <<Num(0, 1), Num(100, 1)>>)
  IN IF out.threw \/ ~hasStyle THEN out
     ELSE IF f.threw \/ fc.threw \/ lc.threw \/ lw.threw \/ pr.threw \/ fh.threw THEN Threw
     ELSE [threw |-> FALSE, fillColors |-> fc.target, lineColors |-> lc.target,
           lineWidths |-> lw.target, pointRadii |-> pr.target,
           fillHeights |-> fh.target, featureFilter |-> f.target]

RECURSIVE applyLayerStyles(_, _, _, _)
applyLayerStyles(out, features, layers, names) ==
  IF names = <<>> THEN out
  ELSE applyLayerStyles(applyLayerStyle(out, features, layers, Head(names)),
                        features, layers, Tail(names))

RECURSIVE Repeat(_, _)
Repeat(n, items) == IF n = 0 THEN <<>> ELSE items \o Repeat(n - 1, items)

StoreAll(kind, items) == [i \in 1..Len(items) |-> Store(kind, items[i])]

\* buildStyleArrays({features, layers, defaults = {}}) with no defaults given
buildStyleArrays(features, layers) ==
  LET N == Len(features)
      initial ==
        [threw |-> FALSE,
         fillColors |-> Repeat(N, StoreAll("u8", hexToRgba(DefaultFillColor, Num(1, 1)))),
         lineColors |-> Repeat(N, StoreAll("u8", hexToRgb(DefaultLineColor))),
         lineWidths |-> Fill(N, DefaultLineWidth),
         pointRadii |-> Fill(N, DefaultPointRadius),
         fillHeights |-> Fill(N, DefaultFillHeight),
         featureFilter |-> Fill(N, Num(1, 1))]
  IN applyLayerStyles(initial, features, layers, bucketNames(features, <<>>))

\* A feature's properties: the data column "v" and, unless layer is "",
\* the layer name in "_layer".
Feature(layer, v) ==
  IF layer = "" THEN [c \in {"v"} |-> v]
  ELSE [c \in {"_layer", "v"} |-> IF c = "_layer" THEN layer ELSE v]

FeatureLists(layerNames, values) ==
  UNION {[1..n -> {Feature(l, v) : l \in layerNames, v \in values}] : n \in 1..MaxFeatures}

\* buildStyleArrays(args) is called and returns or throws.
BuildStyleArrays ==
  /\ call.pc = "args"
  /\ call' = [pc |-> "done", features |-> call.features, layers |-> call.layers,
              result |-> buildStyleArrays(call.features, call.layers)]
  /\ UNCHANGED <<plugin, dbVars, callerVars, queueVars, slot, engineVars, rd,
                 filterVars, buildVars, engineUser, teardown, extraction, joinRun>>

InitStyleRest ==
  /\ plugin = "sqlite-map"
  /\ InitDb
  /\ InitCallers
  /\ InitQueue
  /\ slot = <<>>
  /\ InitEngine
  /\ InitReaders
  /\ InitFilter
  /\ build = NoBuild
  /\ joinDataCache = [k \in JoinKeys |-> "absent"]
  /\ engineUser = NoUsers
  /\ teardown = NoTeardown
  /\ extraction = NoExtraction
  /\ joinRun = NoJoin

Red == <<"#", "f", "f", "0", "0", "0", "0">>
Blue == <<"#", "0", "0", "0", "0", "f", "f">>

\* Style channel values of SpecStyle: constants, categorical and quantitative
\* specifications, an unknown palette, and values of the wrong type.
LineColorSpecs ==
  {JsString(Red),
   [t |-> "object", column |-> "v", colors |-> (Num(1, 1) :> Blue)],
   [t |-> "object", column |-> "v", palette |-> "YlGn", numColors |-> 3],
   [t |-> "object", column |-> "v", palette |-> "NoSuchPalette", numColors |-> 3],
   JsNumber(Num(5, 1))}

LineWidthSpecs ==
  {JsNumber(Num(3, 1)),
   JsString(<<"3">>),
   JsArray(<<Num(5, 1)>>),
   [t |-> "object", column |-> "v", widths |-> (Num(1, 1) :> Num(8, 1))]}

StyleValues == {Num(1, 1), Num(2, 1), Undefined}

LayerStyles(colorSpecs, widthSpecs, radiusSpecs) ==
  {[t \in {"t"} |-> "object"]}
  \cup {("t" :> "object") @@ ("lineColor" :> c) : c \in colorSpecs}
  \cup {("t" :> "object") @@ ("lineWidth" :> w) : w \in widthSpecs}
  \cup {("t" :> "object") @@ ("pointRadius" :> r) : r \in radiusSpecs}
  \cup {("t" :> "object") @@ ("lineColor" :> c) @@ ("lineWidth" :> w) :
          c \in colorSpecs, w \in widthSpecs}
  \cup {("t" :> "object") @@ ("lineColor" :> c) @@ ("pointRadius" :> r) :
          c \in colorSpecs, r \in radiusSpecs}

\* The layer table: roads carries the style, zones has none.  Features
\* without _layer fall into the bucket GLOBAL, which has no layer either.
LayersOf(style) == ("roads" :> [style |-> style]) @@ ("zones" :> [table |-> "zones"])

InitStyle ==
  /\ InitStyleRest
  /\ \E fs \in FeatureLists({"roads", ""}, StyleValues),
        st \in LayerStyles(LineColorSpecs, LineWidthSpecs, {}) :
       call = [pc |-> "args", features |-> fs, layers |-> LayersOf(st)]

NextStyle == BuildStyleArrays

SpecStyle == InitStyle /\ [][NextStyle]_vars

\* The layer name of feature i (from 0) is roads.
InRoads(i) == layerNameOf(call.features[i + 1]) = "roads"

\* C23: buildStyleArrays never throws, whatever the palette name and whatever
\* the shape of the style specification.
C23_NeverThrows == call.pc = "done" => ~call.result.threw

\* C27: the lineColor buffer has 3 bytes per feature, and every feature of a
\* layer whose lineColor is the constant "#ff0000" has red byte 255 (with 3
\* such features: length 9, bytes 0, 3 and 6 are 255).
C27_LineColorBuffer ==
  (call.pc = "done" /\ ~call.result.threw)
    => /\ Len(call.result.lineColors) = 3 * Len(call.features)
       /\ Get(call.layers["roads"].style, "lineColor", JsNumber(NaN)) = JsString(Red)
            => \A i \in 0..(Len(call.features) - 1) :
                 InRoads(i) => call.result.lineColors[3 * i + 1] = 255

C27_Witness ==
  /\ call.pc = "done"
  /\ ~call.result.threw
  /\ Len(call.features) = 3
  /\ \A i \in 0..2 : InRoads(i)
  /\ Get(call.layers["roads"].style, "lineColor", JsNumber(NaN)) = JsString(Red)
  /\ Len(call.result.lineColors) = 9
  /\ \A i \in {0, 3, 6} : call.result.lineColors[i + 1] = 255

\* ---------------------------------------------------------------------------
\* Quantitative mappings (SpecMapping)
\* ---------------------------------------------------------------------------

\* Column values: numbers inside and at the ends of the range, a missing
\* value, and Infinity (which Number() yields for an infinite REAL and for
\* the text 'Infinity').
MappingValues == {Num(0, 1), Num(50, 1), Num(100, 1), Undefined, PosInf}

RadiusLinear ==
  [t |-> "object", column |-> "v", dataRange |-> <<Num(0, 1), Num(100, 1)>>,
   widthRange |-> <<Num(2, 1), Num(12, 1)>>]

RadiusFlat ==
  [t |-> "object", column |-> "v", dataRange |-> <<Num(50, 1), Num(50, 1)>>,
   widthRange |-> <<Num(2, 1), Num(12, 1)>>]

ColorFlat ==
  [t |-> "object", column |-> "v", palette |-> "YlGn", numColors |-> 3,
   range |-> <<Num(50, 1), Num(50, 1)>>]

InitMapping ==
  /\ InitStyleRest
  /\ \E fs \in FeatureLists({"roads", ""}, MappingValues),
        st \in LayerStyles({ColorFlat}, {}, {RadiusLinear, RadiusFlat}) :
       call = [pc |-> "args", features |-> fs, layers |-> LayersOf(st)]

NextMapping == BuildStyleArrays

SpecMapping == InitMapping /\ [][NextMapping]_vars

\* buildStyleArrays has returned, and every feature is in the layer roads.
AllInRoads ==
  /\ call.pc = "done"
  /\ ~call.result.threw
  /\ \A i \in 0..(Len(call.features) - 1) : InRoads(i)

RoadsChannel(key) == Get(call.layers["roads"].style, key, JsNumber(NaN))

\* C24: with input range [0,100] and output range [2,12] the pointRadius of
\* a feature is linear in its value: 2 for 0, 7 for 50, 12 for 100, and
\* 2 + v / 10 for every v between the range ends.
C24_LinearMapping ==
  (AllInRoads /\ RoadsChannel("pointRadius") = RadiusLinear)
    => \A i \in 1..Len(call.features) :
         LET v == call.features[i]["v"]
             r == call.result.pointRadii[i]
         IN /\ v = Num(0, 1) => r = Num(2, 1)
            /\ v = Num(50, 1) => r = Num(7, 1)
            /\ v = Num(100, 1) => r = Num(12, 1)
            /\ (v.k = "num" /\ v.n >= 0 /\ v.n <= 100 * v.d)
                 => r = Frac(20 * v.d + v.n, 10 * v.d)

C24_Witness ==
  /\ AllInRoads
  /\ RoadsChannel("pointRadius") = RadiusLinear
  /\ Len(call.features) = 3
  /\ \A x \in {0, 50, 100} : \E i \in 1..3 : call.features[i]["v"] = Num(x, 1)
  /\ \E i \in 1..3 : call.result.pointRadii[i] = Num(7, 1)

IsFiniteNumber(x) == x.k = "num"

\* C25: when the data range has min equal to max, every value maps to the
\* minimum output (the first palette step for a colour), and no NaN or
\* Infinity is written to a buffer.
C25_FlatRangeMapsToMinimum ==
  AllInRoads
    => /\ RoadsChannel("pointRadius") = RadiusFlat
            => \A i \in 1..Len(call.features) : call.result.pointRadii[i] = Num(2, 1)
       /\ RoadsChannel("lineColor") = ColorFlat
            => \A i \in 1..Len(call.features) :
                 SubSeq(call.result.lineColors, 3 * i - 2, 3 * i)
                   = StoreAll("u8", hexToRgb(cartoColors("YlGn", 3)[1]))
       /\ \A i \in 1..Len(call.features) : IsFiniteNumber(call.result.pointRadii[i])

\* C25 restricted to finite column values and missing values.
C25_FiniteValues ==
  (\A i \in 1..Len(call.features) : call.features[i]["v"] # PosInf)
    => C25_FlatRangeMapsToMinimum

\* ---------------------------------------------------------------------------
\* Coordinate rounding (aequilibrae/utils.ts simplifyCoordinates)
\* ---------------------------------------------------------------------------

JsNull == [t |-> "null"]

RECURSIVE Pow10(_)
Pow10(p) == IF p = 0 THEN 1 ELSE 10 * Pow10(p - 1)

\* n * factor for an element n of a coordinate array that need not be a
\* number: null counts as 0, an array as the number its text denotes.
RECURSIVE CoerceNumber(_)
CoerceNumber(n) ==
  CASE n.t = "number" -> n.x
    [] n.t = "null" -> Num(0, 1)
    [] n.t = "array" -> IF Len(n.items) = 0 THEN Num(0, 1)
                        ELSE IF Len(n.items) = 1 THEN CoerceNumber(n.items[1])
                        ELSE NaN

\* A variant that divides by twice the factor.
roundToFactor_halved(x, factor) ==
  NumDiv(MathRound(NumMul(x, factor)), NumMul(Num(2, 1), factor))

\* Math.round(val * factor) / factor
roundToFactor(x, factor) == NumDiv(MathRound(NumMul(x, factor)), factor)

\* simplifyValue(val) of simplifyCoordinates
RECURSIVE simplifyValue(_, _)
simplifyValue(val, factor) ==
  IF val.t = "number" THEN JsNumber(roundToFactor(val.x, factor))
  ELSE IF val.t # "array" THEN val
  ELSE IF Len(val.items) > 0 /\ val.items[1].t = "number"
  THEN JsArray([i \in 1..Len(val.items) |->
                  JsNumber(roundToFactor(CoerceNumber(val.items[i]), factor))])
  ELSE JsArray([i \in 1..Len(val.items) |-> simplifyValue(val.items[i], factor)])

\* simplifyCoordinates(coords, precision)
simplifyCoordinates(coords, precision) ==
  IF coords.t # "array" THEN coords
  ELSE simplifyValue(coords, Num(Pow10(precision), 1))

\* Coordinates with up to three binary decimals, null, positions, and lists
\* of positions (or of a number and a position).
CoordNumbers == {JsNumber(Frac(n, 8)) : n \in {-20, -3, 1, 20, 56}}
CoordLengths == {0, 1, 2}
ArraysOf(S) == {JsArray(s) : s \in UNION {[1..n -> S] : n \in CoordLengths}}
CoordScalars == CoordNumbers \cup {JsNull}
CoordInputs == CoordScalars \cup ArraysOf(CoordScalars \cup ArraysOf(CoordNumbers))

\* simplifyCoordinates(coords, precision) is called.
SimplifyCoordinates ==
  /\ call.pc = "coords"
  /\ call' = [call EXCEPT !.pc = "once",
                          !.once = simplifyCoordinates(call.coords, call.precision)]
  /\ UNCHANGED <<plugin, dbVars, callerVars, queueVars, slot, engineVars, rd,
                 filterVars, buildVars, engineUser, teardown, extraction, joinRun>>

\* simplifyCoordinates is called on its own result, with the same precision.
SimplifyAgain ==
  /\ call.pc = "once"
  /\ call' = [call EXCEPT !.pc = "twice",
                          !.twice = simplifyCoordinates(call.once, call.precision)]
  /\ UNCHANGED <<plugin, dbVars, callerVars, queueVars, slot, engineVars, rd,
                 filterVars, buildVars, engineUser, teardown, extraction, joinRun>>

InitSimplify ==
  /\ InitStyleRest
  /\ \E c \in CoordInputs, p \in 0..MaxPrecision :
       call = [pc |-> "coords", coords |-> c, precision |-> p, once |-> JsNull,
               twice |-> JsNull]

NextSimplify == SimplifyCoordinates \/ SimplifyAgain

SpecSimplify == InitSimplify /\ [][NextSimplify]_vars

\* C26: rounding coordinates that are already rounded to the same precision
\* changes nothing: simplifyCoordinates(simplifyCoordinates(x, p), p) equals
\* simplifyCoordinates(x, p).
C26_SimplifyIdempotent == call.pc = "twice" => call.twice = call.once

\* The first rounding changed the coordinates, and the second was applied.
C26_Witness ==
  /\ call.pc = "twice"
  /\ call.coords.t = "array"
  /\ call.once # call.coords
  /\ call.twice = call.once

\* ---------------------------------------------------------------------------
\* The admission queue under fair scheduling (SpecQueueFair)
\* ---------------------------------------------------------------------------

\* The reaction of a fulfilled myTurn is a promise job, which the event loop
\* runs; that every holder invokes its release callback is the assumption
\* under which progress is claimed.
QueueFairness ==
  \A t \in 1..MaxWaiters : WF_vars(SlotGranted(t)) /\ WF_vars(ReleaseSlot(t))

\* acquireLoadingSlot() is called, by at most MaxWaiters callers in all.
WaiterAcquires ==
  /\ Len(ticket) < MaxWaiters
  /\ AcquireLoadingSlot

NextQueueFair ==
  \/ WaiterAcquires
  \/ \E t \in 1..MaxWaiters : SlotGranted(t)
  \/ \E t \in 1..MaxWaiters : ReleaseSlot(t)
  \/ \E t \in 1..MaxWaiters : MapLoadingComplete(t)

SpecQueueFair == InitQueueSpec /\ [][NextQueueFair]_vars /\ QueueFairness

\* C28: if every holder of the slot eventually invokes its release callback,
\* every acquireLoadingSlot call eventually resolves, however many callers
\* are waiting.
C28_EveryCallResolves ==
  \A t \in 1..MaxWaiters :
    (t <= Len(slot) /\ slot[t].pc = "waiting")
      ~> (t <= Len(slot) /\ slot[t].pc # "waiting")

\* As many callers as the bound allows have asked, and the last of them,
\* which had all the others before it, holds the slot.
C28_Witness ==
  /\ Len(slot) = MaxWaiters
  /\ slot[MaxWaiters].pc = "granted"
  /\ \A t \in 1..(MaxWaiters - 1) : slot[t].pc = "released"

\* ---------------------------------------------------------------------------
\* Open connections and the cache (SpecTeardown)
\* ---------------------------------------------------------------------------

\* C29: every connection that openDb opened and that has not been closed is
\* the one the cache holds under its path: none is left open and unreachable
\* because its entry was overwritten, or cleared while a parse was in flight.
C29_NoOrphanConnection ==
  \A i \in DOMAIN conn :
    (conn[i].open /\ ~conn[i].closeThrew) => dbCache[conn[i].path].db = i

\* ---------------------------------------------------------------------------
\* Concurrent initSql calls (SpecEngine)
\* ---------------------------------------------------------------------------

\* C30: initSql calls made while the engine is initialising share one
\* invocation of the factory and resolve to the same engine: while the
\* initialisation is in flight no step invokes SPL() again, and a caller
\* that was waiting continues only with the shared engine of that invocation.
C30_SharedInitialisation ==
  [][/\ splInitPromise = "pending" => splCalls' = splCalls
     /\ \A u \in Users :
          (engineUser.pc[u] = "awaitSql" /\ engineUser'.pc[u] = "using")
            => (sharedSpl /\ splCalls = 1)]_vars

\* Every user has called initSql, the initialisation is still in flight, and
\* the factory was invoked once.
C30_Witness ==
  /\ splInitPromise = "pending"
  /\ \A u \in Users : engineUser.pc[u] = "awaitSql"
  /\ splCalls = 1
  /\ splRefCount = NumUsers

\* ------------------------------------------ the engine factory rejects
\* C31: when the factory SPL() has rejected, the in-flight marker is cleared:
\* an initSql call made while there is no engine and no initialisation is
\* running invokes the factory again, it is not handed the rejected promise.
C31_RejectionCleared ==
  [][(/\ ~sharedSpl
      /\ splInitPromise # "pending"
      /\ \E u \in Users : /\ engineUser.pc[u] = "idle"
                          /\ engineUser'.pc[u] = "awaitSql")
     => (splCalls' = splCalls + 1 /\ splInitPromise' = "pending")]_vars

\* ------------------------------------ SpecRefs: every reference counter
\* The database cache and the engine handle side by side: callers open and
\* release one database path, components ask for the engine and return it, and
\* both releaseDb and releaseSql are also called by someone who holds nothing.
\* close() succeeds here; SpecRelease has the releases whose close() throws.
RefPath == "a.db"

\* The modules that hold the two kinds of counter: sqlite-map (db.ts and
\* loader.ts), and the database module of the aequilibrae plugin
\* ("aequilibrae.db"), which has its own copy of the cache, the queue and the
\* engine handle.
RefPlugins == {"sqlite-map", "aequilibrae.db"}

\* releaseSql() of the aequilibrae database module: splRefCount -= 1
releaseSqlAeqDb(e) ==
  [e EXCEPT !.splRefCount = @ - 1]

\* releaseSql() of the module that is loaded.
releaseSqlOf(plg, e) ==
  IF plg = "aequilibrae.db" THEN releaseSqlAeqDb(e) ELSE releaseSql(e)

\* initSql() by a component; what it awaits plays no part in the counters.
\* sqlHolders counts the components that called initSql and have not yet
\* called releaseSql.
InitSqlByComponent ==
  /\ teardown.sqlHolders < MaxInits
  /\ teardown' = [teardown EXCEPT !.sqlHolders = @ + 1]
  /\ SetEngine(initSql(EngineState))
  /\ UNCHANGED <<plugin, dbVars, callerVars, queueVars, slot, rd, filterVars,
                 buildVars, engineUser, extraction, joinRun, call>>

\* releaseSql() by a component that called initSql.
ReleaseSqlByHolder ==
  /\ teardown.sqlHolders > 0
  /\ teardown' = [teardown EXCEPT !.sqlHolders = @ - 1]
  /\ SetEngine(releaseSqlOf(plugin, EngineState))
  /\ UNCHANGED <<plugin, dbVars, callerVars, queueVars, slot, rd, filterVars,
                 buildVars, engineUser, extraction, joinRun, call>>

\* releaseSql() by a component that never called initSql.
ReleaseSqlUnmatched ==
  /\ teardown.sqlStrays < MaxStrays
  /\ teardown' = [teardown EXCEPT !.sqlStrays = @ + 1]
  /\ SetEngine(releaseSqlOf(plugin, EngineState))
  /\ UNCHANGED <<plugin, dbVars, callerVars, queueVars, slot, rd, filterVars,
                 buildVars, engineUser, extraction, joinRun, call>>

NextRefs ==
  \/ \E c \in TeardownCallers : TeardownOpenDb(c, RefPath)
  \/ \E k \in 1..MaxTeardownOpens : ParseResolves(k)
  \/ \E k \in 1..MaxTeardownOpens : ParseRejects(k)
  \/ \E c \in TeardownCallers : JoinResume(c)
  \/ \E c \in TeardownCallers : LoadResume(c)
  \/ \E c \in TeardownCallers : ReleaseHeld(c, TRUE)
  \/ \E c \in TeardownCallers : ReleaseUnmatched(c, RefPath, TRUE)
  \/ InitSqlByComponent
  \/ SplResolves
  \/ SplRejects
  \/ ReleaseSqlByHolder
  \/ ReleaseSqlUnmatched

InitRefs ==
  /\ plugin \in RefPlugins
  /\ InitDb
  /\ InitCallers
  /\ InitQueue
  /\ slot = <<>>
  /\ InitEngine
  /\ InitReaders
  /\ InitFilter
  /\ InitAux

SpecRefs == InitRefs /\ [][NextRefs]_vars

\* C32: in every reachable state, whatever acquire and release calls were
\* made (releases without a matching acquire included), the refCount of every
\* cached database entry and the reference count of the engine are at least 0.
C32_RefCountsNotNegative ==
  /\ splRefCount >= 0
  /\ \A p \in Paths : dbCache[p].refCount >= 0

\* ------------------------------------------------ the maps-loading gauge
\* The load cycles that asked for a loading slot and whose completion has not
\* been signalled with mapLoadingComplete.
CyclesLoading == {r \in Readers : rd[r].ticket # 0 /\ rd[r].signals = 0}

\* C33: the gauge is never decremented for a component that did not ask for
\* a loading slot (a thumbnail): at all times it equals the number of load
\* cycles that asked for a slot and have not yet signalled completion.
C33_GaugeCountsRequesters ==
  totalMapsLoading = Cardinality(CyclesLoading)

\* The same for PolarisReader alone.
C33_PolarisGauge ==
  plugin = "polaris" => C33_GaugeCountsRequesters

\* ------------------------------------------- the frame of a layer's style
\* The buffers buildStyleArrays returns for the same features when no layer
\* has a style: every slot holds its global default.
Unstyled == buildStyleArrays(call.features, "zones" :> [table |-> "zones"])

\* The slots of feature i (from 0) in a buffer with stride slots per feature.
SlotsOf(i, stride) == (stride * i + 1)..(stride * i + stride)

\* C34: applying the style of a layer writes only into the slots of the
\* features of that layer's bucket: in every buffer the slots of a feature
\* that is in no styled layer hold the values they had, the global defaults.
C34_StyleKeepsOtherSlots ==
  (call.pc = "done" /\ ~call.result.threw)
    => \A i \in 0..(Len(call.features) - 1) :
         ~InRoads(i) =>
           /\ \A k \in SlotsOf(i, 4) : call.result.fillColors[k] = Unstyled.fillColors[k]
           /\ \A k \in SlotsOf(i, 3) : call.result.lineColors[k] = Unstyled.lineColors[k]
           /\ call.result.lineWidths[i + 1] = Unstyled.lineWidths[i + 1]
           /\ call.result.pointRadii[i + 1] = Unstyled.pointRadii[i + 1]
           /\ call.result.fillHeights[i + 1] = Unstyled.fillHeights[i + 1]
           /\ call.result.featureFilter[i + 1] = Unstyled.featureFilter[i + 1]

\* ---------------------------------------------------------------------------
\* Geometry of one row: parse, reproject, round (SpecGeometry)
\* ---------------------------------------------------------------------------

\* The modules with a fetchGeoJSONFeatures of their own: sqlite-map/db.ts
\* (no reprojection), the database module of the aequilibrae plugin
\* ("aequilibrae.db", which reprojects) and polaris/db.ts as revised with
\* reprojection ("polaris.db").
GeometryModules == {"sqlite-map", "aequilibrae.db", "polaris.db"}

\* tableProjection.transform: null for a table in WGS84 or without a known
\* projection, else the proj4 conversion to WGS84.  The conversion is one
\* whose results are no decimal fractions: metres to a seventh of a degree.
Transforms == {"null", "proj4"}

ProjScale == Num(7, 1)

transform(x) == NumDiv(x, ProjScale)

\* transformCoordinates(coords, transform)
RECURSIVE transformCoordinates(_)
transformCoordinates(coords) ==
  IF coords.t # "array" THEN coords
  ELSE IF Len(coords.items) > 0 /\ coords.items[1].t = "number"
  THEN JsArray([i \in 1..Len(coords.items) |->
                  IF i <= 2 THEN JsNumber(transform(coords.items[i].x))
                  ELSE coords.items[i]])
  ELSE JsArray([i \in 1..Len(coords.items) |-> transformCoordinates(coords.items[i])])

\* The geometry.coordinates that fetchGeoJSONFeatures puts into the feature
\* of one row.
rowCoordinates(module, coords, precision, tr) ==
  CASE module = "sqlite-map" -> simplifyCoordinates(coords, precision)
    [] module = "aequilibrae.db" ->
         LET simplified == simplifyCoordinates(coords, precision)
         IN IF tr = "proj4" THEN transformCoordinates(simplified) ELSE simplified
    [] module = "polaris.db" ->
         LET projected == IF tr = "proj4" THEN transformCoordinates(coords) ELSE coords
         IN simplifyCoordinates(projected, precision)

\* Every number in coords is a whole multiple of 10^-precision.
RECURSIVE IsRounded(_, _)
IsRounded(coords, precision) ==
  CASE coords.t = "number" ->
         roundToFactor(coords.x, Num(Pow10(precision), 1)) = coords.x
    [] coords.t = "array" ->
         \A i \in 1..Len(coords.items) : IsRounded(coords.items[i], precision)
    [] OTHER -> TRUE

\* Positions in metres, with and without an elevation, and lines of positions.
Metres == {JsNumber(Frac(n, 8)) : n \in {-20, 1, 56, 700}}
Positions ==
  {JsArray(<<x, y>>) : x \in Metres, y \in Metres}
  \cup {JsArray(<<x, y, z>>) : x \in {JsNumber(Num(7, 1))}, y \in Metres, z \in Metres}
GeometryInputs == Positions \cup {JsArray(<<a, b>>) : a \in Positions, b \in Positions}

\* One row of the batch loop: its geometry is parsed and pushed as a feature.
PushFeature ==
  /\ call.pc = "row"
  /\ call' = [call EXCEPT !.pc = "pushed",
                !.coordinates = rowCoordinates(call.module, call.geojson_geom,
                                               call.coordPrecision, call.transform)]
  /\ UNCHANGED <<plugin, dbVars, callerVars, queueVars, slot, engineVars, rd,
                 filterVars, buildVars, engineUser, teardown, extraction, joinRun>>

InitGeometry ==
  /\ InitStyleRest
  /\ \E m \in GeometryModules, c \in GeometryInputs, p \in 0..MaxPrecision,
        tr \in Transforms :
       /\ m = "sqlite-map" => tr = "null"
       /\ call = [pc |-> "row", module |-> m, geojson_geom |-> c, coordPrecision |-> p,
                  transform |-> tr, coordinates |-> JsNull]

NextGeometry == PushFeature

SpecGeometry == InitGeometry /\ [][NextGeometry]_vars

\* C35: every coordinate of every feature that extraction returns has been
\* rounded to the configured precision, also when the coordinates of the
\* table are reprojected to the geographic system.
C35_CoordinatesRounded ==
  call.pc = "pushed" => IsRounded(call.coordinates, call.coordPrecision)

\* C35 for the modules that round after they reproject, or do not reproject.
C35_RoundedLast ==
  call.module # "aequilibrae.db" => C35_CoordinatesRounded

\* ---------------------------------------------------------------------------
\* The order of the features of buildGeoFeatures (SpecOrder)
\* ---------------------------------------------------------------------------

\* Layer names as property keys of the layers object: a key that is the
\* text of an array index ("7", "10") is an integer key, any other a string
\* key.
StrKey(s) == [k |-> "str", s |-> s, n |-> 0]
IdxKey(n) == [k |-> "idx", s |-> "", n |-> n]
LayerKeys == {StrKey("roads"), StrKey("zones"), IdxKey(7), IdxKey(10)}

\* The configurations: up to MaxLayers layers with different names, in the
\* order in which the configuration gives them.
WrittenLayers ==
  {w \in UNION {[1..n -> LayerKeys] : n \in 1..MaxLayers} :
     \A i, j \in 1..Len(w) : i # j => w[i] # w[j]}

\* The integer keys of a key list in ascending order.
RECURSIVE SortedIdx(_)
SortedIdx(S) ==
  IF S = {} THEN <<>>
  ELSE LET m == CHOOSE x \in S : \A y \in S : x.n <= y.n
       IN <<m>> \o SortedIdx(S \ {m})

RECURSIVE StrKeysOf(_)
StrKeysOf(w) ==
  IF w = <<>> THEN <<>>
  ELSE IF w[1].k = "str" THEN <<w[1]>> \o StrKeysOf(Tail(w))
  ELSE StrKeysOf(Tail(w))

\* Object.entries(Object.assign({}, layerConfigs)) for an object whose keys
\* were set in the order w: integer keys first, ascending, then the string
\* keys in the order they were set.
ObjectEntries(w) ==
  SortedIdx({w[i] : i \in {j \in 1..Len(w) : w[j].k = "idx"}}) \o StrKeysOf(w)

\* layersToProcess of buildGeoFeatures for a configuration with layers
layersToProcess(w) == ObjectEntries(w)

\* The features fetchGeoJSONFeatures returns for the rows of a layer, from
\* row r on: a row without geojson_geom is skipped, the others are pushed in
\* the order of the query result.
RECURSIVE fetchedFeatures(_, _, _)
fetchedFeatures(layer, rows, r) ==
  IF r > Len(rows) THEN <<>>
  ELSE (IF rows[r] THEN <<[layer |-> layer, row |-> r]>> ELSE <<>>)
         \o fetchedFeatures(layer, rows, r + 1)

\* The loop of buildGeoFeatures reaches `await fetchGeoJSONFeatures(...)` for
\* the next layer.
StartLayer ==
  /\ call.pc = "loop"
  /\ call.todo # <<>>
  /\ call' = [call EXCEPT !.pc = "fetching", !.layer = Head(call.todo),
                          !.todo = Tail(call.todo),
                          !.started = Append(@, Head(call.todo))]
  /\ UNCHANGED <<plugin, dbVars, callerVars, queueVars, slot, engineVars, rd,
                 filterVars, buildVars, engineUser, teardown, extraction, joinRun>>

\* fetchGeoJSONFeatures has returned: its features are pushed one by one.
LayerFetched ==
  /\ call.pc = "fetching"
  /\ call' = [call EXCEPT !.pc = "loop",
                !.features = @ \o fetchedFeatures(call.layer, call.rows[call.layer], 1)]
  /\ UNCHANGED <<plugin, dbVars, callerVars, queueVars, slot, engineVars, rd,
                 filterVars, buildVars, engineUser, teardown, extraction, joinRun>>

\* The loop ends and buildGeoFeatures returns features.
ReturnFeatures ==
  /\ call.pc = "loop"
  /\ call.todo = <<>>
  /\ call' = [call EXCEPT !.pc = "returned"]
  /\ UNCHANGED <<plugin, dbVars, callerVars, queueVars, slot, engineVars, rd,
                 filterVars, buildVars, engineUser, teardown, extraction, joinRun>>

\* Each table has MaxRows rows; rows[layer][r] tells whether row r has a
\* geometry.
InitOrder ==
  /\ InitStyleRest
  /\ \E w \in WrittenLayers, rows \in [LayerKeys -> [1..MaxRows -> BOOLEAN]] :
       /\ \A l \in LayerKeys : (\A i \in 1..Len(w) : w[i] # l) => rows[l] = [r \in 1..MaxRows |-> TRUE]
       /\ call = [pc |-> "loop", written |-> w, rows |-> rows,
                  todo |-> layersToProcess(w), layer |-> StrKey(""),
                  started |-> <<>>, features |-> <<>>]

NextOrder == StartLayer \/ LayerFetched \/ ReturnFeatures

SpecOrder == InitOrder /\ [][NextOrder]_vars

RECURSIVE FeaturesInOrder(_, _)
FeaturesInOrder(layers, rows) ==
  IF layers = <<>> THEN <<>>
  ELSE fetchedFeatures(layers[1], rows[layers[1]], 1)
         \o FeaturesInOrder(Tail(layers), rows)

\* C36: the array buildGeoFeatures returns lists the layers in the order of
\* the configuration, within a layer the features are in the order of the
\* rows, and a layer is started only when the one before it has finished.
C36_ConfigurationOrder ==
  /\ call.pc = "returned" => call.features = FeaturesInOrder(call.written, call.rows)
  /\ call.pc = "fetching" =>
       call.features = FeaturesInOrder(SubSeq(call.started, 1, Len(call.started) - 1),
                                       call.rows)

\* C36 for layers whose names are no array indices.
C36_StringNames ==
  (\A i \in 1..Len(call.written) : call.written[i].k = "str") => C36_ConfigurationOrder

\* ------------------------------------------------ the LIMIT of the query
\* The effective row limit of the extraction: the configured limit, or the
\* budget computed from the gauge.
EffectiveLimit ==
  memoryOptions(extraction.geometryLimit, extraction.coordinatePrecision,
                extraction.totalMaps).limit

\* C37: the query of a layer is written with a LIMIT that is a positive whole
\* number, and that number is not above the effective row limit, so the
\* layer never returns more features than the effective row limit.
C37_LimitPositiveInteger ==
  extraction.pc = "done" =>
    /\ IsPositiveInteger(extraction.limit)
    /\ EffectiveLimit.k = "num" => ~NumLess(EffectiveLimit, extraction.limit)

\* C37 for the sqlite-map extraction and effective row limits of at least 1.
C37_FromOneUp ==
  (plugin = "sqlite-map" /\ EffectiveLimit.k = "num" /\ EffectiveLimit.n >= EffectiveLimit.d)
    => C37_LimitPositiveInteger

\* ---------------------------------------------------------------------------
\* The filter of a join (SpecJoinFilter)
\* ---------------------------------------------------------------------------

\* queryTable(db, tableName, columns, whereClause): the WHERE part of the
\* query given to db.exec; an empty whereClause adds none.
queryTable(whereClause) ==
  IF whereClause = <<>> THEN [hasFilter |-> FALSE, filter |-> <<>>]
  ELSE [hasFilter |-> TRUE, filter |-> whereClause]

\* getCachedJoinData(db, joinConfig, neededColumn) from the cache test on:
\* the queries it gives to db.exec.
joinQueries(cached, joinConfig) ==
  IF cached THEN <<>> ELSE <<queryTable(joinConfig.filter)>>

\* getCachedJoinData is called for the join of a layer.
GetJoinData ==
  /\ call.pc = "join"
  /\ execLog' = execLog \o joinQueries(call.cached, call.joinConfig)
  /\ call' = [call EXCEPT !.pc = "done"]
  /\ UNCHANGED <<plugin, dbVars, callerVars, queueVars, slot, engineVars, rd,
                 sqlFilter, fetchPc, buildVars, engineUser, teardown, extraction,
                 joinRun>>

InitJoinFilter ==
  /\ InitStyleRest
  /\ \E f \in Filters, cached \in BOOLEAN :
       call = [pc |-> "join", cached |-> cached, joinConfig |-> [filter |-> f]]

NextJoinFilter == GetJoinData

SpecJoinFilter == InitJoinFilter /\ [][NextJoinFilter]_vars

\* C38: the filter of a join is tested against the denylist before it is put
\* into the join query: no query with a join filter that contains a statement
\* separator or a DDL/DML keyword is given to db.exec.
C38_JoinFilterChecked ==
  \A i \in 1..Len(execLog) :
    ~(HasSeparator(execLog[i].filter) \/ HasKeyword(execLog[i].filter))

\* ---------------------------------------------------------------------------
\* The cache of downloads (SpecBlob)
\* ---------------------------------------------------------------------------
\* call.blobCache is helpers.ts blobCache: per cache key the promise it holds
\* (0: no entry).  call.download lists the promises made from getFileBlob, in
\* creation order, call.load the calls of loadDbWithCache and of the lazy
\* loader, which use the cache in the same way.

\* The cache part of loadDbWithCache(spl, fileApi, openDb, path): returns the
\* cache, the downloads and the promise the call awaits.
loadDbWithCache(c, p) ==
  IF c.blobCache[p] # 0
  THEN [blobCache |-> c.blobCache, download |-> c.download,
        promise |-> c.blobCache[p], fetched |-> FALSE]
  ELSE LET id == Len(c.download) + 1
       IN [blobCache |-> [c.blobCache EXCEPT ![p] = id],
           download |-> Append(c.download, [path |-> p, state |-> "pending"]),
           promise |-> id, fetched |-> TRUE]

\* A download of path p has failed.
DownloadFailed(p) ==
  \E k \in 1..Len(call.download) :
    call.download[k].path = p /\ call.download[k].state = "rejected"

\* loadDbWithCache (or the loader made by createLazyDbLoader) is called.
LoadDbWithCache(p) ==
  /\ call.pc = "blob"
  /\ Len(call.load) < MaxLoads
  /\ LET o == loadDbWithCache(call, p)
     IN call' = [call EXCEPT
                   !.blobCache = o.blobCache,
                   !.download = o.download,
                   !.load = Append(@, [path |-> p, promise |-> o.promise,
                                       fetched |-> o.fetched, pc |-> "await",
                                       afterFailure |-> DownloadFailed(p)])]
  /\ UNCHANGED <<plugin, dbVars, callerVars, queueVars, slot, engineVars, rd,
                 filterVars, buildVars, engineUser, teardown, extraction, joinRun>>

\* getFileBlob(path).then(blob => blob.arrayBuffer()) is fulfilled.
DownloadResolves(k) ==
  /\ call.pc = "blob"
  /\ k <= Len(call.download)
  /\ call.download[k].state = "pending"
  /\ call' = [call EXCEPT !.download[k].state = "fulfilled"]
  /\ UNCHANGED <<plugin, dbVars, callerVars, queueVars, slot, engineVars, rd,
                 filterVars, buildVars, engineUser, teardown, extraction, joinRun>>

\* The download is rejected (the file is missing, the network failed).
DownloadRejects(k) ==
  /\ call.pc = "blob"
  /\ k <= Len(call.download)
  /\ call.download[k].state = "pending"
  /\ call' = [call EXCEPT !.download[k].state = "rejected"]
  /\ UNCHANGED <<plugin, dbVars, callerVars, queueVars, slot, engineVars, rd,
                 filterVars, buildVars, engineUser, teardown, extraction, joinRun>>

\* `const arrayBuffer = await arrayBufferPromise` continues: openDb is
\* called, or the rejection is thrown (loadDbWithCache) or caught and null
\* returned (the lazy loader).
LoadContinues(i) ==
  /\ call.pc = "blob"
  /\ i <= Len(call.load)
  /\ call.load[i].pc = "await"
  /\ call.download[call.load[i].promise].state # "pending"
  /\ call' = [call EXCEPT !.load[i].pc =
                IF call.download[call.load[i].promise].state = "fulfilled"
                THEN "openDb" ELSE "failed"]
  /\ UNCHANGED <<plugin, dbVars, callerVars, queueVars, slot, engineVars, rd,
                 filterVars, buildVars, engineUser, teardown, extraction, joinRun>>

InitBlob ==
  /\ InitStyleRest
  /\ call = [pc |-> "blob", blobCache |-> [p \in Paths |-> 0], download |-> <<>>,
             load |-> <<>>]

NextBlob ==
  \/ \E p \in Paths : LoadDbWithCache(p)
  \/ \E k \in 1..MaxLoads : DownloadResolves(k)
  \/ \E k \in 1..MaxLoads : DownloadRejects(k)
  \/ \E i \in 1..MaxLoads : LoadContinues(i)

SpecBlob == InitBlob /\ [][NextBlob]_vars

\* C39: when the download of a database file has failed, a later load of the
\* same path fetches the file again: it is not given the rejected download
\* that the cache holds.
C39_FailedDownloadRetried ==
  \A i \in 1..Len(call.load) :
    call.load[i].afterFailure => call.load[i].fetched

\* ---------------------------------------------------------------------------
\* A join configuration without type (SpecJoin)
\* ---------------------------------------------------------------------------

\* C40: a join configuration that gives no type is a left join for
\* performJoin and for fetchGeoJSONFeatures alike: both keep a primary row
\* that has no match, so every primary row is in the output once.
C40_NoTypeIsLeftJoin ==
  (joinRun.pc = "done" /\ joinRun.type = "undefined") =>
    \A m \in Eligible : Cardinality(OutOf(m)) = 1

\* C40 for fetchGeoJSONFeatures alone.
C40_FetchDefault ==
  joinRun.path = "fetchGeoJSONFeatures" => C40_NoTypeIsLeftJoin

====
